---- MODULE Spec2Model ----
(***************************************************************************)
(* A model of the linepy client core: the token lifecycle of BaseClient,   *)
(* the framed push connection (PushConnection), the push-driven fetcher    *)
(* (PushManager) and the polling fetcher (PollingManager, ChatWorker,      *)
(* DispatchWorker), with the session store they share.                     *)
(*                                                                         *)
(* The module holds several specifications over one set of variables:      *)
(*   SpecAuth    BaseClient login / refresh / logout                       *)
(*   SpecConn    PushConnection.read_loop and _on_packet_received          *)
(*   SpecPush    PushManager: on_push, _fetch_square_events, watch list    *)
(*   SpecPolling PollingManager with its ChatWorkers and DispatchWorker    *)
(***************************************************************************)
EXTENDS Integers, Sequences, FiniteSets, TLC

\* ------------------------------------------------------------------ values

\* Python's None for the string-valued fields of the client and the store.
None == "None"

\* The access tokens and refresh tokens the environment may supply.
AccessTokens == {"t1", "t2"}
RefreshTokens == {"r1", "r2"}

\* The square chats the session may watch.
Chats == {"c1", "c2"}

\* A sync or continuation token is <<p>>, naming position p of the chat's
\* event stream; <<>> stands for None, the empty string or a missing key,
\* which the code treats alike ("if not sync_token").
NoToken == <<>>
Token(p) == <<p>>

\* Bounds of the fetcher models: the events posted to the watched chats in
\* all (in SpecPolling and in SpecPush), the push-triggered fetch threads
\* alive at once, the ChatWorker threads ever created, and the
\* fetchSquareChatEvents calls the polling workers get answered.
MaxEvents == 2
MaxPushEvents == 1
MaxThreads == 2
MaxWorkers == 2
MaxCalls == 3
MaxLoops == 2
MaxCallers == 2
MaxSessionCalls == 4
Threads == 1..MaxThreads
Workers == 1..MaxWorkers
Loops == 1..MaxLoops
Callers == 1..MaxCallers

\* The device kinds the model distinguishes: both primary devices and two
\* secondary ones.
Devices == {"ANDROID", "IOS", "DESKTOPWIN", "IOSIPAD"}

\* config.PRIMARY_DEVICES as named by refresh_access_token's docstring.
PRIMARY_DEVICES == {"ANDROID", "IOS"}

\* ------------------------------------------------------------------ state

VARIABLES
    device,             \* BaseClient.device
    auth_token,         \* BaseClient.auth_token (in memory)
    request_auth_token, \* RequestClient.auth_token (the x-line-access header)
    mid,                \* BaseClient.mid
    storage,            \* the session store behind TokenManager
    last                \* the last BaseClient call: what it returned and did

authVars == <<device, auth_token, request_auth_token, mid, storage, last>>

VARIABLES
    conn_pc,        \* where PushConnection.read_loop stands
    rx,             \* the frames of the chunk being dispatched, in stream order
    h2_pending,     \* H2Connection's outbound data not yet handed to the socket
    sock_out,       \* what writer.sendall has put on the socket, in order
    on_push_calls,  \* the frames PushManager.on_push was called with, in order
    on_ping_calls,  \* the ping ids PushManager.on_ping was called with
    nframes         \* how many frames the server has sent so far

connVars == <<conn_pc, rx, h2_pending, sock_out, on_push_calls, on_ping_calls,
              nframes>>

VARIABLES
    srv         \* the server: how many events each chat's stream holds so far

srvVars == <<srv>>

VARIABLES
    p_running,                \* PushManager._running
    watched_chats,            \* PushManager.watched_chats
    chat_sync_tokens,         \* PushManager.chat_sync_tokens
    chat_continuation_tokens, \* PushManager.chat_continuation_tokens
    fetch_lock,               \* PushManager._fetch_lock: its holder, 0 when free
    t_pc,                     \* per fetch thread: where _fetch_square_events stands
    t_list,                   \* per fetch thread: the list object its loop iterates
    t_idx,                    \* per fetch thread: index of "for chat_mid in watched_chats"
    t_chat,                   \* per fetch thread: chat_mid
    t_sync,                   \* per fetch thread: the local sync_token
    t_cont                    \* per fetch thread: response.continuationToken

threadVars == <<t_pc, t_list, t_idx, t_chat, t_sync, t_cont>>
managerVars == <<p_running, watched_chats, chat_sync_tokens,
                 chat_continuation_tokens, fetch_lock>>
pushVars == <<managerVars, threadVars>>

VARIABLES
    pm_running,   \* PollingManager._running
    pm_watched,   \* PollingManager.watched_chats
    pm_workers,   \* PollingManager._workers: per chat its ChatWorker, 0 for none
    w_pc,         \* per ChatWorker: where the thread stands
    w_chat,       \* per ChatWorker: chat_mid
    w_running,    \* per ChatWorker: _running
    w_sync,       \* per ChatWorker: sync_token
    w_cont,       \* per ChatWorker: continuation_token
    w_resp,       \* per ChatWorker: res of the _fetch_once in progress
    w_err,        \* per ChatWorker: the exception its latest call raised
    w_pause,      \* per ChatWorker: the time.sleep in progress, in ms
    w_orphan,     \* per ChatWorker: its event_queue is no longer the manager's
    event_queue,  \* PollingManager._event_queue
    d_running,    \* DispatchWorker._running of the current dispatcher
    handled,      \* per chat, the events on_event was called with
    handled_cur,  \* per chat, the latest cursor an event handled so far came from
    returned,     \* per chat, the events some fetch made with a sync token returned
    last_cont,    \* per chat, the continuationToken of the latest fetch response
    calls         \* the calls of the polling workers answered so far

workerVars == <<w_pc, w_chat, w_running, w_sync, w_cont, w_resp, w_err,
                w_pause, w_orphan>>
pollManagerVars == <<pm_running, pm_watched, pm_workers>>
dispatchVars == <<event_queue, d_running, handled, handled_cur>>
pollVars == <<pollManagerVars, workerVars, dispatchVars, returned, last_cont,
              calls>>

VARIABLES
    qr_pc,            \* where Login._request_sqr / _request_sqr2 stands
    qr_v2,            \* the flow is _request_sqr2
    qr_wait,          \* seconds since start_time of the wait loop in progress
    qr_total,         \* seconds the flow has spent in its wait loops in all
    qr_poll,          \* how the latest long-poll request ended
    qr_verified,      \* checkQrCodeVerified has succeeded
    qr_cert_ok,       \* verifyCertificate has succeeded
    qr_pin_created,   \* createPinCode has succeeded
    qr_pin_verified,  \* checkPinCodeVerified has succeeded
    qr_timed_out,     \* a wait loop has returned False
    qr_login_issued,  \* qrCodeLogin or qrCodeLoginV2 has been issued
    qr_token          \* the token the flow returned

qrVars == <<qr_pc, qr_v2, qr_wait, qr_total, qr_poll, qr_verified, qr_cert_ok,
            qr_pin_created, qr_pin_verified, qr_timed_out, qr_login_issued,
            qr_token>>

VARIABLES
    not_fin_payloads, \* PushConnection.not_fin_payloads: request id -> bytes
    sign_calls,       \* the on_sign_on_response calls made, in order
    sign_stream,      \* the fragments the server has sent, in order
    sign_n            \* type-3 packets received so far

signVars == <<not_fin_payloads, sign_calls, sign_stream, sign_n>>

VARIABLES
    fe_pc,            \* the "Process events" loop of _fetch_square_events
    fe_events,        \* number of events in the response it iterates
    fe_idx,           \* the event the loop stands at
    fe_handed,        \* events of the response handed to on_event
    dw_alive,         \* DispatchWorker.run has not been left by an exception
    dw_queue,         \* events put in the queue and not yet taken
    dw_put,           \* number of events ChatWorker has put in the queue
    dw_handed,        \* events DispatchWorker handed to on_event
    raising           \* the events for which the user's on_event raises

deliverVars == <<fe_pc, fe_events, fe_idx, fe_handed, dw_alive, dw_queue,
                 dw_put, dw_handed, raising>>

VARIABLES
    l_pc,             \* where each _run_loop thread stands
    l_sock,           \* the socket of the thread's PushConnection is open
    l_closed,         \* PushConnection._closed of the thread's connection
    connections       \* PushManager.connections, by the thread that dialled

loopVars == <<l_pc, l_sock, l_closed, connections>>

VARIABLES
    file,             \* the storage file: parseable JSON or not, and its data
    fs_pc,            \* where each caller of FileStorage stands
    fs_op,            \* the mutation the caller is executing
    fs_data,          \* the caller's local dict: what it read, then changed
    fs_overlap,       \* another write finished while the caller's was open
    fs_whole,         \* the data of the latest write that was completed
    crashed           \* the process has crashed

fileVars == <<file, fs_pc, fs_op, fs_data, fs_overlap, fs_whole, crashed>>

VARIABLES
    default_chats,    \* the list object that is PushManager.start's default
    uses_default,     \* PushManager.watched_chats refers to that object
    sp_mids,          \* chat_mids of the latest BaseClient.start_push call
    s_op,             \* the latest call on the session and whether it warned
    s_n               \* number of calls made on the session

sessionVars == <<default_chats, uses_default, sp_mids, s_op, s_n>>

VARIABLES
    now,              \* time.time(), in seconds
    al_n              \* number of calls made on the stored token

clockVars == <<now, al_n>>

VARIABLES
    k_pc,             \* read_loop: blocked in recv, or left ("ended")
    k_now,            \* time.time() of the connection's thread, in seconds
    k_recv_start,     \* when the recv call in progress was entered
    k_last_receive,   \* PushConnection._last_receive_time
    k_last_ping,      \* PushConnection._last_ping_send_time
    k_awaiting,       \* PushConnection._awaiting_pong
    k_end             \* why read_loop was left

keepVars ==
    <<k_pc, k_now, k_recv_start, k_last_receive, k_last_ping, k_awaiting,
      k_end>>

VARIABLES
    c_pc,             \* the round trip: "input", "encoded" or "decoded"
    c_params,         \* the struct handed to write_thrift
    c_protocol,       \* the protocol handed to write_thrift: 3 or 4
    c_bytes,          \* what write_thrift returned
    c_out             \* what the reader made of c_bytes

codecVars == <<c_pc, c_params, c_protocol, c_bytes, c_out>>

VARIABLES
    cu_mode,          \* who fetches: a ChatWorker ("polling") or PushManager
    cu_pc,            \* the statement of the fetch the thread is at
    cu_sync,          \* the chat's syncToken in memory
    cu_cont,          \* the chat's continuationToken in memory
    cu_resp,          \* the response of the fetchSquareChatEvents call
    cu_out            \* the events put in the queue or handed to on_event

cursorVars == <<cu_mode, cu_pc, cu_sync, cu_cont, cu_resp, cu_out>>

VARIABLES
    fr_frames,        \* the frames the server wrote to the stream
    fr_stream,        \* the bytes of them that have not arrived yet
    fr_buffer,        \* PushConnection.buffer
    fr_out            \* the packets handed to _on_packet_received

frameVars == <<fr_frames, fr_stream, fr_buffer, fr_out>>

moreVars == <<clockVars, keepVars, codecVars, cursorVars, frameVars>>

\* The variables of the specifications that stand apart from the fetchers.
extVars ==
    <<qrVars, signVars, deliverVars, loopVars, fileVars, sessionVars,
      moreVars>>

vars == <<authVars, connVars, srvVars, pushVars, pollVars, extVars>>

\* What the actions of one component leave alone.
clientVars == <<device, auth_token, request_auth_token, mid, last>>
notAuth == <<connVars, srvVars, pushVars, pollVars, extVars>>
notConn == <<authVars, srvVars, pushVars, pollVars, extVars>>
notPush == <<clientVars, connVars, pollVars, extVars>>
notPoll == <<clientVars, connVars, pushVars, extVars>>
notQr ==
    <<connVars, srvVars, pushVars, pollVars, signVars, deliverVars, loopVars,
      fileVars, sessionVars, moreVars>>
notSign ==
    <<authVars, connVars, srvVars, pushVars, pollVars, qrVars, deliverVars,
      loopVars, fileVars, sessionVars, moreVars>>
notDeliver ==
    <<authVars, connVars, srvVars, pushVars, pollVars, qrVars, signVars,
      loopVars, fileVars, sessionVars, moreVars>>
notLoop ==
    <<authVars, connVars, pollVars, qrVars, signVars, deliverVars, fileVars,
      sessionVars, moreVars, chat_continuation_tokens, fetch_lock,
      threadVars>>
notFile ==
    <<authVars, connVars, srvVars, pushVars, pollVars, qrVars, signVars,
      deliverVars, loopVars, sessionVars, moreVars>>
notSession ==
    <<clientVars, connVars, qrVars, signVars, deliverVars, loopVars, fileVars,
      moreVars>>
notClock ==
    <<connVars, srvVars, pushVars, pollVars, qrVars, signVars, deliverVars,
      loopVars, fileVars, sessionVars, keepVars, codecVars, cursorVars,
      frameVars>>
notKeep ==
    <<authVars, connVars, srvVars, pushVars, pollVars, qrVars, signVars,
      deliverVars, loopVars, fileVars, sessionVars, clockVars, codecVars,
      cursorVars, frameVars>>
notCodec ==
    <<authVars, connVars, srvVars, pushVars, pollVars, qrVars, signVars,
      deliverVars, loopVars, fileVars, sessionVars, clockVars, keepVars,
      cursorVars, frameVars>>
notCursor ==
    <<connVars, srvVars, pushVars, pollVars, qrVars, signVars, deliverVars,
      loopVars, fileVars, sessionVars, clockVars, keepVars, codecVars,
      frameVars>>
notFrame ==
    <<authVars, connVars, srvVars, pushVars, pollVars, qrVars, signVars,
      deliverVars, loopVars, fileVars, sessionVars, clockVars, keepVars,
      codecVars, cursorVars>>

\* ------------------------------------------------------------------ SpecAuth

\* A store with no key set (FileStorage._ensure_file writes {}).
EmptyStorage ==
    [auth_token |-> None, refresh_token |-> None, expire |-> 0, mid |-> None,
     sync |-> [c \in Chats |-> NoToken], cont |-> [c \in Chats |-> NoToken]]

NoCall == [op |-> "none", ret |-> None, raised |-> FALSE, net |-> FALSE]

AuthIdle ==
    /\ device = "DESKTOPWIN"
    /\ auth_token = None
    /\ request_auth_token = None
    /\ mid = None
    /\ storage = EmptyStorage
    /\ last = NoCall

ConnIdle ==
    /\ conn_pc = "recv"
    /\ rx = <<>>
    /\ h2_pending = <<>>
    /\ sock_out = <<>>
    /\ on_push_calls = <<>>
    /\ on_ping_calls = <<>>
    /\ nframes = 0

\* A fetch thread's loop iterates a list object: Shared stands for the object
\* PushManager.watched_chats refers to now; any other value is the content
\* of a list object the manager no longer refers to.
Shared == <<"*">>

\* No response in hand.
NoResp ==
    [sync |-> NoToken, cont |-> NoToken, lo |-> 0, hi |-> 0,
     probe |-> FALSE, raised |-> FALSE, rate |-> FALSE]

ServerIdle == srv = [c \in Chats |-> 0]

\* PushManager.__init__
PushIdle ==
    /\ p_running = FALSE
    /\ watched_chats = <<>>
    /\ chat_sync_tokens = [c \in Chats |-> NoToken]
    /\ chat_continuation_tokens = [c \in Chats |-> NoToken]
    /\ fetch_lock = 0
    /\ t_pc = [t \in Threads |-> "idle"]
    /\ t_list = [t \in Threads |-> Shared]
    /\ t_idx = [t \in Threads |-> 0]
    /\ t_chat = [t \in Threads |-> "c1"]
    /\ t_sync = [t \in Threads |-> NoToken]
    /\ t_cont = [t \in Threads |-> NoToken]

\* PollingManager.__init__, with no ChatWorker created yet.
PollIdle ==
    /\ pm_running = FALSE
    /\ pm_watched = <<>>
    /\ pm_workers = [c \in Chats |-> 0]
    /\ w_pc = [w \in Workers |-> "unborn"]
    /\ w_chat = [w \in Workers |-> "c1"]
    /\ w_running = [w \in Workers |-> FALSE]
    /\ w_sync = [w \in Workers |-> NoToken]
    /\ w_cont = [w \in Workers |-> NoToken]
    /\ w_resp = [w \in Workers |-> NoResp]
    /\ w_err = [w \in Workers |-> "none"]
    /\ w_pause = [w \in Workers |-> 0]
    /\ w_orphan = [w \in Workers |-> FALSE]
    /\ event_queue = <<>>
    /\ d_running = FALSE
    /\ handled = [c \in Chats |-> {}]
    /\ handled_cur = [c \in Chats |-> 0]
    /\ returned = [c \in Chats |-> {}]
    /\ last_cont = [c \in Chats |-> NoToken]
    /\ calls = 0

\* Login.__init__: no QR flow has been started.
QrIdle ==
    /\ qr_pc = "idle"
    /\ qr_v2 = FALSE
    /\ qr_wait = 0
    /\ qr_total = 0
    /\ qr_poll = "none"
    /\ qr_verified = FALSE
    /\ qr_cert_ok = FALSE
    /\ qr_pin_created = FALSE
    /\ qr_pin_verified = FALSE
    /\ qr_timed_out = FALSE
    /\ qr_login_issued = FALSE
    /\ qr_token = None

\* PushConnection.__init__: no partial sign-on response is held.
SignIdle ==
    /\ not_fin_payloads = <<>>
    /\ sign_calls = <<>>
    /\ sign_stream = <<>>
    /\ sign_n = 0

\* No response is being processed and the dispatch queue is empty.
DeliverIdle ==
    /\ fe_pc = "idle"
    /\ fe_events = 0
    /\ fe_idx = 0
    /\ fe_handed = {}
    /\ dw_alive = TRUE
    /\ dw_queue = <<>>
    /\ dw_put = 0
    /\ dw_handed = {}
    /\ raising = {}

\* PushManager.__init__: no run-loop thread, no connection.
LoopIdle ==
    /\ l_pc = [t \in Loops |-> "unborn"]
    /\ l_sock = [t \in Loops |-> FALSE]
    /\ l_closed = [t \in Loops |-> FALSE]
    /\ connections = {}

\* A Python dict with no key, and the file as json.dump wrote the dict d.
EmptyDict == [k \in {} |-> 0]
Json(d) == [json |-> TRUE, data |-> d]

\* The file truncated by open(path, "w"), or holding part of a dump or the
\* bytes of two dumps laid over each other: not parseable.
Torn == [json |-> FALSE, data |-> EmptyDict]

\* No mutation is in progress.
NoOp == [kind |-> "none", key |-> "k1", value |-> 0]

\* FileStorage.__init__ / _ensure_file: the file exists and holds {}.
FileIdle ==
    /\ file = Json(EmptyDict)
    /\ fs_pc = [t \in Callers |-> "idle"]
    /\ fs_op = [t \in Callers |-> NoOp]
    /\ fs_data = [t \in Callers |-> EmptyDict]
    /\ fs_overlap = [t \in Callers |-> FALSE]
    /\ fs_whole = EmptyDict
    /\ crashed = FALSE

\* No call has been made on the session; the default list of
\* PushManager.start is as the def statement made it.
SessionIdle ==
    /\ default_chats = <<>>
    /\ uses_default = FALSE
    /\ sp_mids = <<>>
    /\ s_op = [name |-> "none", warned |-> FALSE]
    /\ s_n = 0

\* The clock stands at the start of the window and no call has been made.
ClockIdle ==
    /\ now = 0
    /\ al_n = 0

\* PushConnection.connect: the socket timeout; read_loop: the keep-alive
\* and idle thresholds, in seconds.
RECV_TIMEOUT == 5
KEEPALIVE_SECONDS == 30
IDLE_LIMIT == 120

\* time.time() when read_loop is entered: any time of day is more than the
\* keep-alive threshold past the initial _last_ping_send_time of 0.0.
StartTime == KEEPALIVE_SECONDS + 1

\* A PushConnection that has connected and entered read_loop.
KeepIdle ==
    /\ k_pc = "recv"
    /\ k_now = StartTime
    /\ k_recv_start = StartTime
    /\ k_last_receive = StartTime
    /\ k_last_ping = 0
    /\ k_awaiting = FALSE
    /\ k_end = "none"

\* No struct has been handed to the codec.
CodecIdle ==
    /\ c_pc = "idle"
    /\ c_params = <<>>
    /\ c_protocol = 4
    /\ c_bytes = <<>>
    /\ c_out = <<>>

\* No fetch is followed statement by statement.
CursorIdle ==
    /\ cu_mode = "none"
    /\ cu_pc = "idle"
    /\ cu_sync = NoToken
    /\ cu_cont = NoToken
    /\ cu_resp = NoResp
    /\ cu_out = <<>>

\* No byte of the push stream is followed.
FrameIdle ==
    /\ fr_frames = <<>>
    /\ fr_stream = <<>>
    /\ fr_buffer = <<>>
    /\ fr_out = <<>>

MoreIdle == ClockIdle /\ KeepIdle /\ CodecIdle /\ CursorIdle /\ FrameIdle

ExtIdle ==
    /\ QrIdle /\ SignIdle /\ DeliverIdle /\ LoopIdle /\ FileIdle
    /\ SessionIdle /\ MoreIdle

\* BaseClient.__init__ with a storage file left by an earlier session.
InitAuth ==
    /\ device \in Devices
    /\ auth_token = None
    /\ request_auth_token = None
    /\ mid = None
    /\ storage \in [auth_token : {None, "t1"},
                    refresh_token : {None, "r1"},
                    expire : {0},
                    mid : {None},
                    sync : {[c \in Chats |-> NoToken]},
                    cont : {[c \in Chats |-> NoToken]}]
    /\ last = NoCall
    /\ ConnIdle
    /\ ServerIdle
    /\ PushIdle
    /\ PollIdle
    /\ ExtIdle

\* BaseClient.set_auth_token writes the token to the client, to the request
\* client and, through TokenManager.auth_token, to the store.
set_auth_token(st, token) == [st EXCEPT !.auth_token = token]

\* BaseClient.login_with_token(auth_token, save); get_profile is one network
\* call that answers with the account's mid or raises.
login_with_token(token, save, profileOk) ==
    /\ auth_token' = token
    /\ request_auth_token' = token
    /\ LET s1 == set_auth_token(storage, token)
           s2 == IF save THEN [s1 EXCEPT !.auth_token = token] ELSE s1
       IN  IF profileOk
           THEN /\ mid' = "u1"
                /\ storage' = IF save THEN [s2 EXCEPT !.mid = "u1"] ELSE s2
                /\ last' = [op |-> "login_with_token", ret |-> None,
                            raised |-> FALSE, net |-> TRUE,
                            save |-> save]
           ELSE /\ mid' = mid
                /\ storage' = s2
                /\ last' = [op |-> "login_with_token", ret |-> None,
                            raised |-> TRUE, net |-> TRUE,
                            save |-> save]
    /\ UNCHANGED <<device, notAuth>>

\* BaseClient.logout(clear_storage); TokenManager.clear empties the store.
logout(clear_storage) ==
    /\ auth_token' = None
    /\ mid' = None
    /\ request_auth_token' = None
    /\ storage' = IF clear_storage THEN EmptyStorage ELSE storage
    /\ last' = [op |-> "logout", ret |-> None, raised |-> FALSE, net |-> FALSE]
    /\ UNCHANGED <<device, notAuth>>

\* refresh_access_token on a primary device: warn and hand back the current
\* token ("" when the client has none); nothing else happens.
RefreshPrimaryMutant ==
    /\ device \in PRIMARY_DEVICES
    /\ storage.refresh_token # None
    /\ auth_token' = "t2"
    /\ request_auth_token' = "t2"
    /\ storage' = set_auth_token(storage, "t2")
    /\ last' = [op |-> "refresh_access_token", ret |-> "t2",
                raised |-> FALSE, net |-> TRUE]
    /\ UNCHANGED <<device, mid, notAuth>>

RefreshPrimary ==
    /\ device \in PRIMARY_DEVICES
    /\ last' = [op |-> "refresh_access_token",
                ret |-> IF auth_token # None /\ auth_token # ""
                        THEN auth_token ELSE "",
                raised |-> FALSE, net |-> FALSE]
    /\ UNCHANGED <<device, auth_token, request_auth_token, mid, storage, notAuth>>

\* refresh_access_token on a secondary device with no refresh token stored:
\* LineException(0, "No refresh token available") before any RPC.
RefreshNoToken ==
    /\ device \notin PRIMARY_DEVICES
    /\ storage.refresh_token \in {None, ""}
    /\ last' = [op |-> "refresh_access_token", ret |-> None,
                raised |-> TRUE, net |-> FALSE]
    /\ UNCHANGED <<device, auth_token, request_auth_token, mid, storage, notAuth>>

\* refresh_access_token when auth_service.refresh raises: the except clause
\* wraps the error in a LineException and re-raises.
RefreshRpcFailsMutant ==
    /\ device \notin PRIMARY_DEVICES
    /\ storage.refresh_token \notin {None, ""}
    /\ auth_token' = None
    /\ request_auth_token' = None
    /\ storage' = [storage EXCEPT !.auth_token = None]
    /\ last' = [op |-> "refresh_access_token", ret |-> None,
                raised |-> TRUE, net |-> TRUE]
    /\ UNCHANGED <<device, mid, notAuth>>

RefreshRpcFails ==
    /\ device \notin PRIMARY_DEVICES
    /\ storage.refresh_token \notin {None, ""}
    /\ last' = [op |-> "refresh_access_token", ret |-> None,
                raised |-> TRUE, net |-> TRUE]
    /\ UNCHANGED <<device, auth_token, request_auth_token, mid, storage, notAuth>>

\* refresh_access_token when auth_service.refresh answers with
\* (access_token, refresh_token), either of which may be missing.
RefreshRpcAnswers(new_access_token, new_refresh_token) ==
    /\ device \notin PRIMARY_DEVICES
    /\ storage.refresh_token \notin {None, ""}
    /\ LET s1 == IF new_access_token # None
                 THEN set_auth_token(storage, new_access_token) ELSE storage
           s2 == IF new_refresh_token # None
                 THEN [s1 EXCEPT !.refresh_token = new_refresh_token] ELSE s1
       IN  storage' = s2
    /\ auth_token' = IF new_access_token # None
                     THEN new_access_token ELSE auth_token
    /\ request_auth_token' = IF new_access_token # None
                             THEN new_access_token ELSE request_auth_token
    /\ last' = [op |-> "refresh_access_token", ret |-> new_access_token,
                raised |-> FALSE, net |-> TRUE]
    /\ UNCHANGED <<device, mid, notAuth>>

refresh_access_token ==
    \/ RefreshPrimary
    \/ RefreshNoToken
    \/ RefreshRpcFails
    \/ \E a \in AccessTokens \cup {None}, r \in RefreshTokens \cup {None} :
           RefreshRpcAnswers(a, r)

NextAuth ==
    \/ \E t \in AccessTokens, save \in BOOLEAN, ok \in BOOLEAN :
           login_with_token(t, save, ok)
    \/ \E c \in BOOLEAN : logout(c)
    \/ refresh_access_token

SpecAuth == InitAuth /\ [][NextAuth]_vars

\* C9: a refresh_access_token call on a primary device (ANDROID, IOS) returns
\* the client's current token, changes neither the store nor the in-memory
\* token nor the request header, raises nothing and makes no network call.
C9_PrimaryRefreshIsNoOp ==
    [][(device \in PRIMARY_DEVICES /\ last'.op = "refresh_access_token")
        => /\ storage' = storage
           /\ auth_token' = auth_token
           /\ request_auth_token' = request_auth_token
           /\ ~last'.net
           /\ ~last'.raised
           /\ (auth_token # None => last'.ret = auth_token)]_vars

\* A primary device that holds a token and a stored refresh token has been
\* asked to refresh and got its own token back.
C9_Witness ==
    /\ device \in PRIMARY_DEVICES
    /\ last.op = "refresh_access_token"
    /\ auth_token \in AccessTokens
    /\ last.ret = auth_token
    /\ storage.refresh_token # None

\* C10: on a secondary device a refresh_access_token call that fails (no
\* refresh token stored, or the refresh RPC raised) raises, and leaves the
\* stored access token, the stored refresh token and the in-memory access
\* token as they were; with no refresh token stored the call always fails and
\* makes no network call.
C10_FailedRefreshKeepsCredentials ==
    [][(device \notin PRIMARY_DEVICES /\ last'.op = "refresh_access_token")
        => /\ (storage.refresh_token = None => last'.raised /\ ~last'.net)
           /\ (last'.raised
                 => /\ storage'.auth_token = storage.auth_token
                    /\ storage'.refresh_token = storage.refresh_token
                    /\ auth_token' = auth_token
                    /\ request_auth_token' = request_auth_token)]_vars

\* A logged-in secondary device whose refresh RPC raised.
C10_Witness ==
    /\ device \notin PRIMARY_DEVICES
    /\ last.op = "refresh_access_token"
    /\ last.raised
    /\ last.net
    /\ auth_token \in AccessTokens
    /\ storage.refresh_token \in RefreshTokens

\* C25: login_with_token(token, save=False) installs the token in the client
\* and in the request client and leaves the session store as it was; in
\* particular the store's auth_token key is not written.
C25_NoSaveLeavesStore ==
    [][(last'.op = "login_with_token" /\ ~last'.save)
        => /\ auth_token' # None
           /\ request_auth_token' = auth_token'
           /\ storage' = storage]_vars

\* ------------------------------------------------------------------ SpecConn

\* LegyH2PushFrameType / LegyH2PingFrameType
NONE == 0
ACK == 1
ACK_REQUIRED == 2

\* ServiceType
SQUARE == 3
TALK_SYNC == 8

\* Packet kinds of the framed stream.
PING_PACKET == 1
PUSH_PACKET == 4

\* Bounds of the connection model.
MaxFrames == 3
MaxPushId == 2

\* The frames the server may send: push frames of every push kind (3 is a
\* kind the client does not know) for two services, and pings.  `short` marks
\* a push payload of fewer than 6 bytes.
PushFrames ==
    [kind : {PUSH_PACKET}, type : 0..3, service : {SQUARE, TALK_SYNC},
     id : 1..MaxPushId, short : BOOLEAN]
PingFrames ==
    [kind : {PING_PACKET}, type : {ACK, ACK_REQUIRED}, service : {0},
     id : 1..MaxPushId, short : {FALSE}]
ServerFrames == PushFrames \cup PingFrames

\* LegyH2PushFrame.ack_packet: a push packet [ACK, service_type, push_id].
PushAckPacket(f) ==
    [kind |-> PUSH_PACKET, type |-> ACK, service |-> f.service, id |-> f.id]

\* LegyH2PingFrame(1, ping_id).ack_packet: a ping packet [ACK, ping_id].
PingAckPacket(f) ==
    [kind |-> PING_PACKET, type |-> ACK, service |-> 0, id |-> f.id]

\* read_loop: writer.recv returns a chunk; h2 hands its data to
\* _on_data_received, which cuts it into complete frames.
RecvData ==
    /\ conn_pc = "recv"
    /\ \E n \in 1..2 :
        /\ nframes + n <= MaxFrames
        /\ \E fs \in [1..n -> ServerFrames] :
            /\ rx' = fs
            /\ nframes' = nframes + n
    /\ conn_pc' = "dispatch"
    /\ UNCHANGED <<h2_pending, sock_out, on_push_calls, on_ping_calls, notConn>>

\* PushConnection.close, reached from read_loop's finally: close_connection,
\* send_data_to_socket, writer.close.
CloseConn ==
    /\ sock_out' = sock_out \o h2_pending
    /\ h2_pending' = <<>>
    /\ rx' = <<>>
    /\ conn_pc' = "closed"

\* PushConnection.write_bytes(data) with flush left at its default False:
\* conn.send_data only queues the bytes in the H2Connection.
write_bytes(pending, data) == Append(pending, data)

\* _on_packet_received for a ping: a server ping (type 2) is acknowledged
\* and passed to on_ping; a pong is ignored.
OnPingPacket(f) ==
    /\ f.kind = PING_PACKET
    /\ IF f.type = ACK_REQUIRED
       THEN /\ h2_pending' = write_bytes(h2_pending, PingAckPacket(f))
            /\ on_ping_calls' = Append(on_ping_calls, f.id)
       ELSE UNCHANGED <<h2_pending, on_ping_calls>>
    /\ rx' = Tail(rx)
    /\ UNCHANGED <<conn_pc, sock_out, on_push_calls>>

\* _on_packet_received for a push packet whose push kind the client knows.
\* A payload under 6 bytes is dropped; kinds NONE and ACK_REQUIRED reach
\* on_push, ACK_REQUIRED after write_bytes(ack_packet()).
OnPushPacket(f) ==
    /\ f.kind = PUSH_PACKET
    /\ f.short \/ f.type \in {NONE, ACK, ACK_REQUIRED}
    /\ IF f.short \/ f.type = ACK
       THEN UNCHANGED <<h2_pending, on_push_calls>>
       ELSE /\ h2_pending' = IF f.type = ACK_REQUIRED
                             THEN write_bytes(h2_pending, PushAckPacket(f))
                             ELSE h2_pending
            /\ on_push_calls' = Append(on_push_calls, f)
    /\ rx' = Tail(rx)
    /\ UNCHANGED <<conn_pc, sock_out, on_ping_calls>>

\* _on_packet_received for a push packet of an unknown push kind:
\* LegyH2PushFrameType(push_type) raises ValueError, which read_loop catches
\* and answers by closing the connection.
OnUnknownPushKind(f) ==
    /\ f.kind = PUSH_PACKET
    /\ ~f.short
    /\ f.type \notin {NONE, ACK, ACK_REQUIRED}
    /\ CloseConn
    /\ UNCHANGED <<on_push_calls, on_ping_calls>>

\* One frame of the chunk goes through _on_packet_received.
OnPacketReceived ==
    /\ conn_pc = "dispatch"
    /\ rx # <<>>
    /\ UNCHANGED <<nframes, notConn>>
    /\ \/ OnPingPacket(Head(rx))
       \/ OnPushPacket(Head(rx))
       \/ OnUnknownPushKind(Head(rx))

\* read_loop after the chunk's events: send_data_to_socket hands everything
\* queued in the H2Connection to writer.sendall.
SendDataToSocket ==
    /\ conn_pc = "dispatch"
    /\ rx = <<>>
    /\ sock_out' = sock_out \o h2_pending
    /\ h2_pending' = <<>>
    /\ conn_pc' = "recv"
    /\ UNCHANGED <<rx, on_push_calls, on_ping_calls, nframes, notConn>>

\* The server closes the socket (recv returns b""), or PushManager.stop
\* closes the connection: read_loop leaves through its finally clause.
SocketClosed ==
    /\ conn_pc = "recv"
    /\ CloseConn
    /\ UNCHANGED <<on_push_calls, on_ping_calls, nframes, notConn>>

NextConn ==
    \/ RecvData
    \/ OnPacketReceived
    \/ SendDataToSocket
    \/ SocketClosed

InitConn ==
    AuthIdle /\ ConnIdle /\ ServerIdle /\ PushIdle /\ PollIdle /\ ExtIdle

SpecConn == InitConn /\ [][NextConn]_vars

\* Whether packet p has been written to the socket.
OnSocket(p) == \E j \in 1..Len(sock_out) : sock_out[j] = p

\* C1: whenever on_push has been called with a push frame whose push kind is
\* ACK_REQUIRED, the push-ack packet carrying that frame's (serviceKind,
\* pushId) has already been written to the socket.
C1_AckOnSocketBeforeOnPush ==
    \A i \in 1..Len(on_push_calls) :
        on_push_calls[i].type = ACK_REQUIRED
            => OnSocket(PushAckPacket(on_push_calls[i]))

\* C40: a received frame that is too short for its kind or whose push kind
\* is unknown is dropped: the step that handles it calls no handler, writes
\* nothing, leaves the connection open and goes on to the frames behind it.
C40_BadFrameDropped ==
    [][(/\ conn_pc = "dispatch"
        /\ rx # <<>>
        /\ Head(rx).kind = PUSH_PACKET
        /\ \/ Head(rx).short
           \/ Head(rx).type \notin {NONE, ACK, ACK_REQUIRED})
        => /\ conn_pc' = "dispatch"
           /\ rx' = Tail(rx)
           /\ UNCHANGED <<h2_pending, on_push_calls, on_ping_calls>>]_vars

\* ------------------------------------------------------------------ server

\* The position a token names.
Pos(tok) == tok[1]

\* What fetchSquareChatEvents(chat, syncToken=s, continuationToken, limit=50)
\* may answer: the events after s up to some q, a syncToken for q or none,
\* and, with it, a continuationToken for q while the backlog is not finished.
FetchResponses(c, s) ==
    UNION { { [sync |-> sy, cont |-> co, lo |-> s, hi |-> q,
               probe |-> FALSE, raised |-> FALSE, rate |-> FALSE] :
                sy \in {Token(q)},
                co \in {NoToken} \cup (IF q < srv[c] THEN {Token(q)} ELSE {}) }
            \cup { [sync |-> NoToken, cont |-> NoToken, lo |-> s, hi |-> q,
                    probe |-> FALSE, raised |-> FALSE, rate |-> FALSE] } :
            q \in s..srv[c] }

\* What fetchSquareChatEvents(chat, limit=1) may answer: the syncToken of the
\* stream's latest position, or none.
ProbeResponses(c) ==
    { [sync |-> sy, cont |-> NoToken, lo |-> srv[c], hi |-> srv[c],
       probe |-> TRUE, raised |-> FALSE, rate |-> FALSE] :
        sy \in {Token(srv[c]), NoToken} }

\* The call raised: a rate limit ("429") or any other error.
Raised(rate) ==
    [sync |-> NoToken, cont |-> NoToken, lo |-> 0, hi |-> 0,
     probe |-> FALSE, raised |-> TRUE, rate |-> rate]

\* The events of a response, in the order the server returned them.
Events(r) == (r.lo + 1)..r.hi

\* The events posted to all chats so far.
RECURSIVE PostedIn(_)
PostedIn(cs) ==
    IF cs = {} THEN 0
    ELSE LET c == CHOOSE x \in cs : TRUE IN srv[c] + PostedIn(cs \ {c})

Posted == PostedIn(Chats)

\* A member posts to the chat, while fewer than max events were posted.
ServerEvent(c, max) ==
    /\ Posted < max
    /\ srv' = [srv EXCEPT ![c] = @ + 1]

\* ------------------------------------------------------------------ store

\* TokenManager's cursor accessors: one store key per chat and per token.
get_square_sync_token(st, c) == st.sync[c]
get_square_continuation_token(st, c) == st.cont[c]
set_square_sync_token(st, c, tok) == [st EXCEPT !.sync[c] = tok]
set_square_continuation_token(st, c, tok) == [st EXCEPT !.cont[c] = tok]

\* ------------------------------------------------------------------ SpecPush

\* The lists of distinct chats.
ChatLists ==
    { l \in UNION { [1..n -> Chats] : n \in 0..Cardinality(Chats) } :
        \A i, j \in DOMAIN l : i # j => l[i] # l[j] }

InList(c, l) == \E i \in DOMAIN l : l[i] = c
Remove(c, l) == SelectSeq(l, LAMBDA x : x # c)

\* PushManager.start(watched_chats, on_event): refused while running.  The
\* argument is either the list object the manager already refers to (same)
\* or another one; a fetch thread in its loop goes on over the object it
\* started with.
PushStartEffect(chats, same) ==
    /\ same => chats = watched_chats
    /\ watched_chats' = chats
    /\ p_running' = TRUE
    /\ t_list' = [t \in Threads |->
                    IF ~same /\ t_list[t] = Shared
                             /\ t_pc[t] \in {"next", "probe", "fetch", "fetched"}
                    THEN watched_chats ELSE t_list[t]]
    /\ UNCHANGED <<chat_sync_tokens, chat_continuation_tokens, fetch_lock,
                   t_pc, t_idx, t_chat, t_sync, t_cont, srvVars, storage>>

PushStart(chats, same) ==
    /\ ~p_running
    /\ PushStartEffect(chats, same)
    /\ UNCHANGED notPush

\* PushManager.stop: clears the flag and closes the connections; fetch
\* threads already started run on.
PushStopEffect ==
    /\ p_running' = FALSE
    /\ UNCHANGED <<watched_chats, chat_sync_tokens, chat_continuation_tokens,
                   fetch_lock, threadVars, srvVars, storage>>

PushStop ==
    /\ p_running
    /\ PushStopEffect
    /\ UNCHANGED notPush

\* Whether _refresh_sync_tokens probes chat c.
NeedsProbe(c) == InList(c, watched_chats) /\ chat_sync_tokens[c] = NoToken

\* _run_loop before each dial: _refresh_sync_tokens makes a limit=1 call for
\* every watched chat that has no sync token in memory; a call that raises is
\* logged and skipped.  The token goes to chat_sync_tokens only.
RefreshSyncTokens(answers) ==
    /\ p_running
    /\ auth_token \notin {None, ""}
    /\ \E c \in Chats : NeedsProbe(c)
    /\ \A c \in Chats :
         IF NeedsProbe(c)
         THEN answers[c].raised \/ answers[c] \in ProbeResponses(c)
         ELSE answers[c] = Raised(FALSE)
    /\ chat_sync_tokens' =
         [c \in Chats |->
            IF NeedsProbe(c) THEN answers[c].sync ELSE chat_sync_tokens[c]]
    /\ UNCHANGED <<p_running, watched_chats, chat_continuation_tokens,
                   fetch_lock, threadVars, srvVars, storage, notPush>>

\* PushManager.on_push for a SQUARE frame of the open connection: start a
\* thread on _fetch_square_events.  The new thread takes the first slot
\* that holds no live thread.
on_push(t) ==
    /\ p_running
    /\ t_pc[t] \in {"idle", "skipped"}
    /\ \A u \in Threads : u < t => t_pc[u] \notin {"idle", "skipped"}
    /\ t_pc' = [t_pc EXCEPT ![t] = "start"]
    /\ UNCHANGED <<managerVars, t_list, t_idx, t_chat, t_sync, t_cont,
                   srvVars, storage, notPush>>

\* _fetch_lock.acquire(blocking=False): whether the lock is handed out.
AcquireMutant(lock) == TRUE

Acquire(lock) == lock = 0

\* "Fetch lock busy, skipping to avoid concurrency": the thread returns.
LockBusyMutant(t) == [t_pc EXCEPT ![t] = "fetch"]

LockBusy(t) == [t_pc EXCEPT ![t] = "skipped"]

\* "finally: self._fetch_lock.release()": the lock its holder leaves behind.
ReleaseMutant(holder) == holder
Release(holder) == 0

\* _fetch_square_events up to its loop: a busy lock ends the thread; with
\* the lock, an empty watch list returns at once (the finally releases).
FetchAcquire(t) ==
    /\ t_pc[t] = "start"
    /\ IF Acquire(fetch_lock)
       THEN IF watched_chats = <<>>
            THEN /\ t_pc' = [t_pc EXCEPT ![t] = "idle"]
                 /\ fetch_lock' = Release(t)
                 /\ UNCHANGED t_idx
            ELSE /\ t_pc' = [t_pc EXCEPT ![t] = "next"]
                 /\ fetch_lock' = t
                 /\ t_idx' = [t_idx EXCEPT ![t] = 1]
       ELSE /\ t_pc' = LockBusy(t)
            /\ UNCHANGED <<fetch_lock, t_idx>>
    /\ UNCHANGED <<p_running, watched_chats, chat_sync_tokens,
                   chat_continuation_tokens, t_list, t_chat, t_sync, t_cont,
                   srvVars, storage, notPush>>

\* The head of "for chat_mid in self.watched_chats": the next chat's tokens
\* are read and its call is issued; past the end, the finally clause
\* releases the lock and the thread ends.
CycleNext(t) ==
    /\ t_pc[t] = "next"
    /\ LET chats == IF t_list[t] = Shared THEN watched_chats ELSE t_list[t] IN
       IF t_idx[t] > Len(chats)
       THEN /\ t_pc' = [t_pc EXCEPT ![t] = "idle"]
            /\ fetch_lock' = Release(t)
            /\ t_list' = [t_list EXCEPT ![t] = Shared]
            /\ t_idx' = [t_idx EXCEPT ![t] = 0]
            /\ t_chat' = [t_chat EXCEPT ![t] = "c1"]
            /\ t_sync' = [t_sync EXCEPT ![t] = NoToken]
       ELSE LET c == chats[t_idx[t]] IN
            /\ t_chat' = [t_chat EXCEPT ![t] = c]
            /\ t_sync' = [t_sync EXCEPT ![t] = chat_sync_tokens[c]]
            /\ t_pc' = [t_pc EXCEPT ![t] =
                          IF chat_sync_tokens[c] = NoToken
                          THEN "probe" ELSE "fetch"]
            /\ UNCHANGED <<fetch_lock, t_list, t_idx>>
    /\ UNCHANGED <<p_running, watched_chats, chat_sync_tokens,
                   chat_continuation_tokens, t_cont, srvVars, storage,
                   notPush>>

\* "if hasattr(response, 'syncToken') and response.syncToken": the chat's
\* in-memory syncToken is replaced only by a token that is not empty.
UpdateSyncTokenMutant(tokens, c, new_token) == [tokens EXCEPT ![c] = new_token]
UpdateSyncToken(tokens, c, new_token) ==
    IF new_token # NoToken THEN [tokens EXCEPT ![c] = new_token] ELSE tokens

\* The limit=1 call of a chat without sync token returns: its syncToken goes
\* to chat_sync_tokens, the continuation token is dropped, and the loop
\* continues.  A call that raises is logged.
CycleProbeReturn(t, r) ==
    /\ t_pc[t] = "probe"
    /\ r.raised \/ r \in ProbeResponses(t_chat[t])
    /\ LET c == t_chat[t] IN
       IF r.raised
       THEN UNCHANGED <<chat_sync_tokens, chat_continuation_tokens>>
       ELSE /\ chat_sync_tokens' = UpdateSyncToken(chat_sync_tokens, c, r.sync)
            /\ chat_continuation_tokens' =
                 [chat_continuation_tokens EXCEPT ![c] = NoToken]
    /\ t_idx' = [t_idx EXCEPT ![t] = @ + 1]
    /\ t_pc' = [t_pc EXCEPT ![t] = "next"]
    /\ UNCHANGED <<p_running, watched_chats, fetch_lock, t_list, t_chat,
                   t_sync, t_cont, srvVars, storage, notPush>>

\* The limit=50 call returns: "Update sync token".  The new token goes to
\* chat_sync_tokens, and to the store when it differs from the one sent.
CycleFetchReturn(t, r) ==
    /\ t_pc[t] = "fetch"
    /\ r.raised \/ r \in FetchResponses(t_chat[t], Pos(t_sync[t]))
    /\ LET c == t_chat[t] IN
       IF r.raised
       THEN /\ t_idx' = [t_idx EXCEPT ![t] = @ + 1]
            /\ t_pc' = [t_pc EXCEPT ![t] = "next"]
            /\ UNCHANGED <<chat_sync_tokens, storage, t_cont>>
       ELSE /\ chat_sync_tokens' = UpdateSyncToken(chat_sync_tokens, c, r.sync)
            /\ storage' = IF r.sync # NoToken /\ r.sync # t_sync[t]
                          THEN set_square_sync_token(storage, c, r.sync)
                          ELSE storage
            /\ t_cont' = [t_cont EXCEPT ![t] = r.cont]
            /\ t_pc' = [t_pc EXCEPT ![t] = "fetched"]
            /\ UNCHANGED t_idx
    /\ UNCHANGED <<p_running, watched_chats, chat_continuation_tokens,
                   fetch_lock, t_list, t_chat, t_sync, srvVars, notPush>>

\* "Update continuation token" and "Process events": the continuation token
\* is overwritten in memory and written to the store only when it is not
\* None; on_event is then called for each event, and an exception of the
\* handler ends this chat's turn.  Neither changes the manager's state.
CycleFetchFinish(t) ==
    /\ t_pc[t] = "fetched"
    /\ LET c == t_chat[t] IN
       /\ chat_continuation_tokens' =
            [chat_continuation_tokens EXCEPT ![c] = t_cont[t]]
       /\ storage' =
            IF t_cont[t] # NoToken
            THEN set_square_continuation_token(storage, c, t_cont[t])
            ELSE storage
    /\ t_idx' = [t_idx EXCEPT ![t] = @ + 1]
    /\ t_pc' = [t_pc EXCEPT ![t] = "next"]
    /\ t_cont' = [t_cont EXCEPT ![t] = NoToken]
    /\ UNCHANGED <<p_running, watched_chats, chat_sync_tokens, fetch_lock,
                   t_list, t_chat, t_sync, srvVars, notPush>>

\* PushManager.add_watched_chat: append, and load the stored tokens.
PushAddWatchedChat(c) ==
    /\ ~InList(c, watched_chats)
    /\ watched_chats' = Append(watched_chats, c)
    /\ chat_sync_tokens' =
         IF get_square_sync_token(storage, c) # NoToken
         THEN [chat_sync_tokens EXCEPT ![c] = get_square_sync_token(storage, c)]
         ELSE chat_sync_tokens
    /\ chat_continuation_tokens' =
         IF get_square_continuation_token(storage, c) # NoToken
         THEN [chat_continuation_tokens EXCEPT
                 ![c] = get_square_continuation_token(storage, c)]
         ELSE chat_continuation_tokens
    /\ UNCHANGED <<p_running, fetch_lock, threadVars, srvVars, storage,
                   notPush>>

\* PushManager.remove_watched_chat: drop the chat and its in-memory tokens.
PushRemoveWatchedChat(c) ==
    /\ InList(c, watched_chats)
    /\ watched_chats' = Remove(c, watched_chats)
    /\ chat_sync_tokens' = [chat_sync_tokens EXCEPT ![c] = NoToken]
    /\ chat_continuation_tokens' =
         [chat_continuation_tokens EXCEPT ![c] = NoToken]
    /\ UNCHANGED <<p_running, fetch_lock, threadVars, srvVars, storage,
                   notPush>>

\* The server's side of SpecPush.
PushServerEvent(c) ==
    /\ ServerEvent(c, MaxPushEvents)
    /\ UNCHANGED <<pushVars, storage, notPush>>

\* Every answer a call may get in some state.
AnyResponse ==
    UNION {ProbeResponses(c) : c \in Chats}
    \cup UNION {FetchResponses(c, s) : c \in Chats, s \in 0..MaxEvents}
    \cup {Raised(FALSE), Raised(TRUE)}

ProbeAnswers ==
    [Chats -> UNION {ProbeResponses(c) : c \in Chats} \cup {Raised(FALSE)}]

NextPush ==
    \/ \E l \in ChatLists, same \in BOOLEAN : PushStart(l, same)
    \/ PushStop
    \/ \E a \in ProbeAnswers : RefreshSyncTokens(a)
    \/ \E t \in Threads : on_push(t)
    \/ \E t \in Threads : FetchAcquire(t)
    \/ \E t \in Threads : CycleNext(t)
    \/ \E t \in Threads, r \in AnyResponse : CycleProbeReturn(t, r)
    \/ \E t \in Threads, r \in AnyResponse : CycleFetchReturn(t, r)
    \/ \E t \in Threads : CycleFetchFinish(t)
    \/ \E c \in Chats : PushAddWatchedChat(c)
    \/ \E c \in Chats : PushRemoveWatchedChat(c)
    \/ \E c \in Chats : PushServerEvent(c)

\* A logged-in secondary-device client: PushManager and PollingManager have
\* just been constructed.
LoggedIn ==
    /\ device = "DESKTOPWIN"
    /\ auth_token = "t1"
    /\ request_auth_token = "t1"
    /\ mid = "u1"
    /\ storage = [EmptyStorage EXCEPT !.auth_token = "t1", !.mid = "u1"]
    /\ last = NoCall

InitPush ==
    LoggedIn /\ ConnIdle /\ ServerIdle /\ PushIdle /\ PollIdle /\ ExtIdle

SpecPush == InitPush /\ [][NextPush]_vars

\* The threads that hold a place inside the fetch cycle of
\* _fetch_square_events (between acquiring the lock and releasing it).
InCycle == {t \in Threads : t_pc[t] \in {"next", "probe", "fetch", "fetched"}}

\* C2: at most one push-triggered thread is inside the fetch cycle at any
\* time, and it is the holder of the fetch lock.
C2_OneFetchCycle ==
    /\ Cardinality(InCycle) <= 1
    /\ \A t \in InCycle : fetch_lock = t

\* One thread is in the middle of a fetch call while another push-triggered
\* thread found the lock busy and gave up.
C2_Witness ==
    \E t1, t2 \in Threads :
        /\ t_pc[t1] = "fetch"
        /\ t_pc[t2] = "skipped"

\* A fetch step of thread t on the chat it works on has just completed with
\* a syncToken in memory: the limit=1 call returned one, or the limit=50 call
\* returned and "Update sync token" is done.
SyncStepDone(t) ==
    \/ /\ t_pc[t] = "probe"
       /\ t_pc'[t] = "next"
       /\ chat_sync_tokens'[t_chat[t]] # chat_sync_tokens[t_chat[t]]
    \/ /\ t_pc[t] = "fetch"
       /\ t_pc'[t] = "fetched"
       /\ chat_sync_tokens'[t_chat[t]] # NoToken

\* C4: whenever a successful fetch step of a chat completes, the chat's
\* durable syncToken equals the in-memory syncToken the next fetch will use
\* (the one of the latest response that carried a token).
C4_DurableSyncTokenIsLatest ==
    [][\A t \in Threads :
          SyncStepDone(t)
              => get_square_sync_token(storage', t_chat[t])
                     = chat_sync_tokens'[t_chat[t]]]_vars

\* C22: a step that removes a watched chat and drops its in-memory syncToken
\* leaves the store unchanged, and the store holds that very syncToken, so
\* that add_watched_chat, which reloads the cursors from the store, resumes
\* from it instead of probing afresh.
C22_RemovePreservesCursor ==
    [][\A c \in Chats :
          (chat_sync_tokens[c] # NoToken /\ chat_sync_tokens'[c] = NoToken)
              => /\ storage' = storage
                 /\ get_square_sync_token(storage, c) = chat_sync_tokens[c]]_vars

\* C35: a thread of _fetch_square_events that ends (after the last chat,
\* whatever its calls and the handler did, or at once because no chat is
\* watched) leaves the fetch lock free, and the lock is held only by a
\* thread that is inside the fetch cycle: it is never left held by a thread
\* that has ended.
C35_LockReleasedAtCycleEnd ==
    [][/\ \A t \in Threads :
            (t_pc[t] \in {"start", "next"} /\ t_pc'[t] = "idle")
                => fetch_lock' = 0
       /\ fetch_lock' # 0 => fetch_lock' \in InCycle']_vars

\* A fetch cycle that wrote a syncToken to the store has ended: no thread
\* is left in _fetch_square_events and the lock is free.
C35_Witness ==
    /\ fetch_lock = 0
    /\ \A t \in Threads : t_pc[t] \in {"idle", "skipped"}
    /\ \E c \in Chats : get_square_sync_token(storage, c) # NoToken

C30_BusyLockCoalesces ==
    [][\A t \in Threads :
          /\ (t_pc[t] = "start" /\ fetch_lock # 0 /\ t_pc'[t] # "start")
                 => /\ t_pc'[t] = "skipped"
                    /\ UNCHANGED <<fetch_lock, chat_sync_tokens,
                                   chat_continuation_tokens, watched_chats,
                                   storage, srvVars, t_chat, t_sync, t_cont>>
          /\ (t_pc[t] = "skipped" /\ t_pc'[t] # "skipped")
                 => (p_running /\ t_pc'[t] = "start")]_vars

\* A thread gave up on the busy lock while the holder waits for the answer
\* of its limit=1 call.
C30_Witness ==
    \E t1, t2 \in Threads :
        /\ fetch_lock = t1
        /\ t_pc[t1] = "probe"
        /\ t_pc[t2] = "skipped"

\* The push session with its threads scheduled fairly: every thread that
\* was started runs on, and a call that was issued returns or raises.  Nothing
\* obliges the server to send a further push.
FairPush ==
    \A t \in Threads :
        /\ WF_vars(FetchAcquire(t))
        /\ WF_vars(CycleNext(t))
        /\ WF_vars(\E r \in AnyResponse : CycleProbeReturn(t, r))
        /\ WF_vars(\E r \in AnyResponse : CycleFetchReturn(t, r))
        /\ WF_vars(CycleFetchFinish(t))

SpecPushFair == InitPush /\ [][NextPush]_vars /\ FairPush

\* C37: a square push received while the session is running is followed by
\* a fetch cycle that begins after it: the thread started for it enters
\* the cycle (or ends it at once, no chat being watched), or another
\* thread is seen at the head of a cycle.
C37_PushFollowedByFetchCycle ==
    \A t \in Threads :
        (p_running /\ t_pc[t] = "start")
            ~> \/ t_pc[t] \in {"idle", "next", "probe", "fetch", "fetched"}
               \/ \E u \in Threads \ {t} :
                     /\ fetch_lock = u
                     /\ t_pc[u] = "next"
                     /\ t_idx[u] = 1

\* --------------------------------------------------------------- SpecPolling

\* time.sleep(2) and time.sleep(0.1) of ChatWorker.run, in milliseconds.
RATE_LIMIT_SLEEP_MS == 2000
ERROR_SLEEP_MS == 100

\* The ChatWorker objects created so far; they are created in slot order.
Used == Cardinality({w \in Workers : w_pc[w] # "unborn"})

\* The position of chat c in list l.
IndexOf(c, l) == CHOOSE i \in DOMAIN l : l[i] = c

\* The workers PollingManager._workers holds.
Registered == {pm_workers[c] : c \in Chats} \ {0}

\* PollingManager.add_watched_chat: append the chat and, while running,
\* create and start its ChatWorker, whose __init__ loads the stored tokens.
PollAddWatchedChat(c) ==
    /\ ~InList(c, pm_watched)
    /\ pm_watched' = Append(pm_watched, c)
    /\ IF pm_running /\ pm_workers[c] = 0
       THEN LET w == Used + 1 IN
            /\ w \in Workers
            /\ pm_workers' = [pm_workers EXCEPT ![c] = w]
            /\ w_pc' = [w_pc EXCEPT ![w] = "new"]
            /\ w_chat' = [w_chat EXCEPT ![w] = c]
            /\ w_sync' = [w_sync EXCEPT ![w] = get_square_sync_token(storage, c)]
            /\ w_cont' = [w_cont EXCEPT
                            ![w] = get_square_continuation_token(storage, c)]
       ELSE UNCHANGED <<pm_workers, w_pc, w_chat, w_sync, w_cont>>
    /\ UNCHANGED <<pm_running, w_running, w_resp, w_err, w_pause, w_orphan,
                   dispatchVars, returned, last_cont, calls, srvVars, storage,
                   notPoll>>

\* PollingManager.remove_watched_chat: drop the chat, tell its worker to
\* stop and forget the worker; the thread is not joined.
PollRemoveWatchedChat(c) ==
    /\ InList(c, pm_watched) \/ pm_workers[c] # 0
    /\ pm_watched' = Remove(c, pm_watched)
    /\ pm_workers' = [pm_workers EXCEPT ![c] = 0]
    /\ w_running' = [w \in Workers |->
                        IF w = pm_workers[c] THEN FALSE ELSE w_running[w]]
    /\ UNCHANGED <<pm_running, w_pc, w_chat, w_sync, w_cont, w_resp, w_err,
                   w_pause, w_orphan, dispatchVars, returned, last_cont, calls,
                   srvVars, storage, notPoll>>

\* PollingManager.start: refused while running; a non-empty argument
\* replaces the watch list; a new queue and dispatcher are made, and one
\* ChatWorker per watched chat is created and started.  Threads of an
\* earlier run still alive keep the queue they were given.
PollStartEffect(chats) ==
    /\ LET watch == IF chats # <<>> THEN chats ELSE pm_watched
           base == Used
       IN  /\ base + Len(watch) <= MaxWorkers
           /\ pm_watched' = watch
           /\ pm_workers' = [c \in Chats |->
                               IF InList(c, watch)
                               THEN base + IndexOf(c, watch)
                               ELSE pm_workers[c]]
           /\ w_pc' = [w \in Workers |->
                         IF w \in (base + 1)..(base + Len(watch))
                         THEN "new" ELSE w_pc[w]]
           /\ w_chat' = [w \in Workers |->
                           IF w \in (base + 1)..(base + Len(watch))
                           THEN watch[w - base] ELSE w_chat[w]]
           /\ w_sync' = [w \in Workers |->
                           IF w \in (base + 1)..(base + Len(watch))
                           THEN get_square_sync_token(storage, watch[w - base])
                           ELSE w_sync[w]]
           /\ w_cont' = [w \in Workers |->
                           IF w \in (base + 1)..(base + Len(watch))
                           THEN get_square_continuation_token(
                                    storage, watch[w - base])
                           ELSE w_cont[w]]
           /\ w_orphan' = [w \in Workers |->
                             w_pc[w] \notin {"unborn", "dead"}]
    /\ pm_running' = TRUE
    /\ event_queue' = <<>>
    /\ d_running' = TRUE
    /\ UNCHANGED <<w_running, w_resp, w_err, w_pause, handled, handled_cur,
                   returned, last_cont, calls, srvVars, storage>>

PollStart(chats) ==
    /\ ~pm_running
    /\ PollStartEffect(chats)
    /\ UNCHANGED notPoll

\* PollingManager.stop: every registered worker and the dispatcher are told
\* to stop, joined for at most a second each, and forgotten.
PollStopEffect ==
    /\ pm_running' = FALSE
    /\ w_running' = [w \in Workers |->
                        IF w \in Registered THEN FALSE ELSE w_running[w]]
    /\ d_running' = FALSE
    /\ pm_workers' = [c \in Chats |-> 0]
    /\ UNCHANGED <<pm_watched, w_pc, w_chat, w_sync, w_cont, w_resp, w_err,
                   w_pause, w_orphan, event_queue, handled, handled_cur,
                   returned, last_cont, calls, srvVars, storage>>

PollStop ==
    /\ pm_running
    /\ PollStopEffect
    /\ UNCHANGED notPoll

\* ChatWorker.run up to its loop: _running is set, and a worker without
\* sync token calls _init_token.
WorkerRun(w) ==
    /\ w_pc[w] = "new"
    /\ w_running' = [w_running EXCEPT ![w] = TRUE]
    /\ w_pc' = [w_pc EXCEPT ![w] = IF w_sync[w] = NoToken THEN "init" ELSE "loop"]
    /\ UNCHANGED <<pollManagerVars, w_chat, w_sync, w_cont, w_resp, w_err,
                   w_pause, w_orphan, dispatchVars, returned, last_cont, calls,
                   srvVars, storage, notPoll>>

\* How ChatWorker.run classifies an exception.
ErrorKind(r) == IF r.rate THEN "rate" ELSE "other"

\* _init_token's limit=1 call returns, in run or in _fetch_once: a syncToken
\* is kept and persisted; an exception is logged and swallowed, so that the
\* caller goes on to the loop's test either way.
InitTokenReturn(w, r) ==
    /\ w_pc[w] = "init"
    /\ calls < MaxCalls
    /\ r.raised \/ r \in ProbeResponses(w_chat[w])
    /\ calls' = calls + 1
    /\ IF ~r.raised /\ r.sync # NoToken
       THEN /\ w_sync' = [w_sync EXCEPT ![w] = r.sync]
            /\ storage' = set_square_sync_token(storage, w_chat[w], r.sync)
       ELSE UNCHANGED <<w_sync, storage>>
    /\ w_err' = [w_err EXCEPT ![w] = IF r.raised THEN ErrorKind(r) ELSE "none"]
    /\ w_pc' = [w_pc EXCEPT ![w] = "loop"]
    /\ UNCHANGED <<pollManagerVars, w_chat, w_running, w_cont, w_resp, w_pause,
                   w_orphan, dispatchVars, returned, last_cont, srvVars,
                   notPoll>>

\* "while self._running": a stopped worker ends; otherwise _fetch_once
\* issues the limit=1 call (no sync token) or the limit=50 call.
WorkerLoop(w) ==
    /\ w_pc[w] = "loop"
    /\ w_err' = [w_err EXCEPT ![w] = "none"]
    /\ IF ~w_running[w]
       THEN /\ w_pc' = [w_pc EXCEPT ![w] = "dead"]
            /\ w_chat' = [w_chat EXCEPT ![w] = "c1"]
            /\ w_sync' = [w_sync EXCEPT ![w] = NoToken]
            /\ w_cont' = [w_cont EXCEPT ![w] = NoToken]
            /\ w_orphan' = [w_orphan EXCEPT ![w] = FALSE]
       ELSE /\ w_pc' = [w_pc EXCEPT ![w] =
                          IF w_sync[w] = NoToken THEN "init" ELSE "fetch"]
            /\ UNCHANGED <<w_chat, w_sync, w_cont, w_orphan>>
    /\ UNCHANGED <<pollManagerVars, w_running, w_resp, w_pause, dispatchVars,
                   returned, last_cont, calls, srvVars, storage, notPoll>>

\* The limit=50 call of _fetch_once returns.  An exception reaches run's
\* handler, which sleeps 2 s on a rate limit and 0.1 s otherwise.  A
\* response's syncToken is kept and persisted ("Update sync token").
FetchOnceReturn(w, r) ==
    /\ w_pc[w] = "fetch"
    /\ calls < MaxCalls
    /\ r.raised \/ r \in FetchResponses(w_chat[w], Pos(w_sync[w]))
    /\ calls' = calls + 1
    /\ IF r.raised
       THEN /\ w_err' = [w_err EXCEPT ![w] = ErrorKind(r)]
            /\ w_pause' = [w_pause EXCEPT ![w] =
                             IF r.rate THEN RATE_LIMIT_SLEEP_MS
                             ELSE ERROR_SLEEP_MS]
            /\ w_pc' = [w_pc EXCEPT ![w] = "sleep"]
            /\ UNCHANGED <<w_sync, w_resp, storage, returned>>
       ELSE /\ w_sync' = IF r.sync # NoToken
                         THEN [w_sync EXCEPT ![w] = r.sync] ELSE w_sync
            /\ storage' = IF r.sync # NoToken
                          THEN set_square_sync_token(storage, w_chat[w], r.sync)
                          ELSE storage
            /\ w_resp' = [w_resp EXCEPT ![w] = r]
            /\ returned' = [returned EXCEPT ![w_chat[w]] = @ \cup Events(r)]
            /\ w_pc' = [w_pc EXCEPT ![w] = "fetched"]
            /\ UNCHANGED <<w_err, w_pause>>
    /\ UNCHANGED <<pollManagerVars, w_chat, w_running, w_cont, w_orphan,
                   dispatchVars, last_cont, srvVars, notPoll>>

\* The events of response r of chat c as queue entries, in the server's
\* order; cur is the cursor the call was made with.
RECURSIVE QueueEntries(_, _, _)
QueueEntries(c, r, from) ==
    IF from > r.hi THEN <<>>
    ELSE <<[chat |-> c, ev |-> from, cur |-> r.lo]>>
         \o QueueEntries(c, r, from + 1)

\* The rest of _fetch_once: "Update continuation token" overwrites the
\* worker's token and writes the store only when the token is not None;
\* "Push events to queue" puts the events on the queue the worker was given.
FetchOnceFinish(w) ==
    /\ w_pc[w] = "fetched"
    /\ LET c == w_chat[w]
           r == w_resp[w]
       IN  /\ w_cont' = [w_cont EXCEPT ![w] = r.cont]
           /\ storage' = IF r.cont # NoToken
                         THEN set_square_continuation_token(storage, c, r.cont)
                         ELSE storage
           /\ last_cont' = [last_cont EXCEPT ![c] = r.cont]
           /\ event_queue' = IF w_orphan[w] THEN event_queue
                             ELSE event_queue \o QueueEntries(c, r, r.lo + 1)
    /\ w_resp' = [w_resp EXCEPT ![w] = NoResp]
    /\ w_pc' = [w_pc EXCEPT ![w] = "loop"]
    /\ UNCHANGED <<pollManagerVars, w_chat, w_running, w_sync, w_err, w_pause,
                   w_orphan, d_running, handled, handled_cur, returned, calls,
                   srvVars, notPoll>>

\* time.sleep returns and run goes back to the loop's test.
WorkerWake(w) ==
    /\ w_pc[w] = "sleep"
    /\ w_pause' = [w_pause EXCEPT ![w] = 0]
    /\ w_err' = [w_err EXCEPT ![w] = "none"]
    /\ w_pc' = [w_pc EXCEPT ![w] = "loop"]
    /\ UNCHANGED <<pollManagerVars, w_chat, w_running, w_sync, w_cont, w_resp,
                   w_orphan, dispatchVars, returned, last_cont, calls, srvVars,
                   storage, notPoll>>

Max(a, b) == IF a > b THEN a ELSE b

\* DispatchWorker.run: take the head of the queue and call on_event with
\* it; an exception of the handler is logged.
Dispatch ==
    /\ d_running
    /\ event_queue # <<>>
    /\ LET e == Head(event_queue) IN
       /\ handled' = [handled EXCEPT ![e.chat] = @ \cup {e.ev}]
       /\ handled_cur' = [handled_cur EXCEPT ![e.chat] = Max(@, e.cur)]
    /\ event_queue' = Tail(event_queue)
    /\ UNCHANGED <<pollManagerVars, workerVars, d_running, returned, last_cont,
                   calls, srvVars, storage, notPoll>>

\* The server's side of SpecPolling.
PollServerEvent(c) ==
    /\ ServerEvent(c, MaxEvents)
    /\ UNCHANGED <<pollVars, storage, notPoll>>

NextPolling ==
    \/ \E l \in ChatLists : PollStart(l)
    \/ PollStop
    \/ \E c \in Chats : PollAddWatchedChat(c)
    \/ \E c \in Chats : PollRemoveWatchedChat(c)
    \/ \E w \in Workers : WorkerRun(w)
    \/ \E w \in Workers, r \in AnyResponse : InitTokenReturn(w, r)
    \/ \E w \in Workers : WorkerLoop(w)
    \/ \E w \in Workers, r \in AnyResponse : FetchOnceReturn(w, r)
    \/ \E w \in Workers : FetchOnceFinish(w)
    \/ \E w \in Workers : WorkerWake(w)
    \/ Dispatch
    \/ \E c \in Chats : PollServerEvent(c)

InitPolling ==
    LoggedIn /\ ConnIdle /\ ServerIdle /\ PushIdle /\ PollIdle /\ ExtIdle

SpecPolling == InitPolling /\ [][NextPolling]_vars

\* C3: the persisted syncToken of a chat never stands at or past an event a
\* fetch returned that has not been handed to the handler.
C3_PersistedCursorBehindHandler ==
    \A c \in Chats :
        get_square_sync_token(storage, c) # NoToken
            => \A e \in returned[c] :
                   e <= Pos(get_square_sync_token(storage, c))
                       => e \in handled[c]

\* C5: a worker whose latest call raised is pausing, 2 s after a rate limit
\* and 0.1 s after any other error, before it calls again.
C5_RaisedCallPausesWorker ==
    \A w \in Workers :
        /\ w_err[w] = "rate"
             => w_pc[w] = "sleep" /\ w_pause[w] = RATE_LIMIT_SLEEP_MS
        /\ w_err[w] = "other"
             => w_pc[w] = "sleep" /\ w_pause[w] = ERROR_SLEEP_MS

\* The dispatcher hands the head of the queue to the handler in this step.
Dispatching ==
    /\ event_queue # <<>>
    /\ event_queue' = Tail(event_queue)
    /\ pm_running' = pm_running

\* C6: an event handed to the handler was obtained with a cursor no earlier
\* than the cursor of every event of its chat handled before it.
C6_HandledInCursorOrder ==
    [][Dispatching
          => Head(event_queue).cur
                 >= handled_cur[Head(event_queue).chat]]_vars

\* C7: when the latest fetch response of a chat carried no continuationToken,
\* none is stored for the chat, in the store or in its worker.
C7_ContinuationTokenCleared ==
    \A c \in Chats :
        last_cont[c] = NoToken
            => /\ get_square_continuation_token(storage, c) = NoToken
               /\ pm_workers[c] # 0 => w_cont[pm_workers[c]] = NoToken

\* C8: the store never holds a continuationToken of one response next to
\* the syncToken of another: a stored continuationToken names the position
\* the stored syncToken names.
C8_CursorPairNeverTorn ==
    \A c \in Chats :
        get_square_continuation_token(storage, c) # NoToken
            => /\ get_square_sync_token(storage, c) # NoToken
               /\ Pos(get_square_sync_token(storage, c))
                      = Pos(get_square_continuation_token(storage, c))

\* The ChatWorkers that have a call for chat c in flight or are applying
\* its response to their cursor and the store.
Fetching(c) ==
    {w \in Workers : w_chat[w] = c /\ w_pc[w] \in {"init", "fetch", "fetched"}}

\* C18: at no time are two ChatWorkers fetching for the same chat.
C18_OneWorkerPerChat == \A c \in Chats : Cardinality(Fetching(c)) <= 1

\* PollingManager builds its queue with queue.Queue(): maxsize is 0, which
\* makes put never wait.
QUEUE_MAXSIZE == 0

\* C31: the queue has a fixed capacity and no worker puts events past it:
\* every step that lengthens the queue leaves it within the capacity.
C31_QueueWithinCapacity ==
    [][Len(event_queue') > Len(event_queue)
        => /\ QUEUE_MAXSIZE > 0
           /\ Len(event_queue') <= QUEUE_MAXSIZE]_vars

(***************************************************************************)
(* QR-code login: Login.login_with_qr, the v1 flow _request_sqr, the v2    *)
(* flow _request_sqr2 and the two long-poll wait loops.  Time is counted   *)
(* in seconds; a long-poll request that times out takes                    *)
(* POLL_REQUEST_TIMEOUT, an answer or an error comes at once.              *)
(***************************************************************************)

QR_WAIT_TIMEOUT == 300
PIN_WAIT_TIMEOUT == 300
POLL_REQUEST_TIMEOUT == 20
POLL_ERROR_SLEEP == 2

TOKEN_V3_SUPPORT == {"DESKTOPWIN", "DESKTOPMAC", "IOS", "ANDROID"}

is_v3_support(d) == d \in TOKEN_V3_SUPPORT

\* How one long-poll request can end.
PollOutcomes == {"ok", "timeout", "error"}

\* What the login RPC can answer.
LoginAnswers == {"token", "no_token", "error"}

\* Every step of the flow leaves these alone.
QrFrame == UNCHANGED <<authVars, notQr>>

\* Login.login_with_qr(v3) up to the first wait; v3 is <<>> for None and
\* <<b>> for the flag b.  The flow is chosen, then
\* createSession and createQrCode are called; either can raise LoginError.
QrStart(v3, ok) ==
    /\ qr_pc = "idle"
    /\ qr_v2' = IF v3 = <<>> THEN is_v3_support(device) ELSE v3[1]
    /\ qr_pc' = IF ok THEN "qr_wait" ELSE "failed"
    /\ UNCHANGED <<qr_wait, qr_total, qr_poll, qr_verified, qr_cert_ok,
                   qr_pin_created, qr_pin_verified, qr_timed_out,
                   qr_login_issued, qr_token>>
    /\ QrFrame

\* The time one request of a wait loop takes.
PollTime(outcome) == IF outcome = "timeout" THEN POLL_REQUEST_TIMEOUT ELSE 0

\* One iteration of the while loop of _check_qr_verified: the deadline test,
\* the checkQrCodeVerified request and the handling of how it ended.
CheckQrVerifiedPoll(outcome) ==
    /\ qr_pc = "qr_wait"
    /\ qr_wait < QR_WAIT_TIMEOUT
    /\ qr_wait' = qr_wait + PollTime(outcome)
    /\ qr_total' = qr_total + PollTime(outcome)
    /\ qr_poll' = outcome
    /\ qr_verified' = (outcome = "ok")
    /\ qr_pc' = CASE outcome = "ok" -> "cert"
                  [] outcome = "timeout" -> "qr_wait"
                  [] OTHER -> "qr_sleep"
    /\ UNCHANGED <<qr_v2, qr_cert_ok, qr_pin_created, qr_pin_verified,
                   qr_timed_out, qr_login_issued, qr_token>>
    /\ QrFrame

\* time.sleep(2) after a polling error of _check_qr_verified.
CheckQrVerifiedSleep ==
    /\ qr_pc = "qr_sleep"
    /\ qr_wait' = qr_wait + POLL_ERROR_SLEEP
    /\ qr_total' = qr_total + POLL_ERROR_SLEEP
    /\ qr_pc' = "qr_wait"
    /\ UNCHANGED <<qr_v2, qr_poll, qr_verified, qr_cert_ok, qr_pin_created,
                   qr_pin_verified, qr_timed_out, qr_login_issued, qr_token>>
    /\ QrFrame

\* _check_qr_verified leaves its loop and returns False; both flows then
\* raise LoginError("QR code verification timeout").
CheckQrVerifiedDeadline ==
    /\ qr_pc = "qr_wait"
    /\ qr_wait >= QR_WAIT_TIMEOUT
    /\ qr_timed_out' = TRUE
    /\ qr_pc' = "failed"
    /\ UNCHANGED <<qr_v2, qr_wait, qr_total, qr_poll, qr_verified,
                   qr_cert_ok, qr_pin_created, qr_pin_verified,
                   qr_login_issued, qr_token>>
    /\ QrFrame

\* _verify_certificate inside the try of either flow: an exception sends the
\* flow to createPinCode.
VerifyCertificate(ok) ==
    /\ qr_pc = "cert"
    /\ qr_cert_ok' = ok
    /\ qr_pc' = IF ok THEN "login" ELSE "pin_create"
    /\ UNCHANGED <<qr_v2, qr_wait, qr_total, qr_poll, qr_verified,
                   qr_pin_created, qr_pin_verified, qr_timed_out,
                   qr_login_issued, qr_token>>
    /\ QrFrame

\* createPinCode; its LoginError is not caught.  On success the PIN wait
\* starts with a start_time of its own.
CreatePinCode(ok) ==
    /\ qr_pc = "pin_create"
    /\ qr_pin_created' = ok
    /\ qr_pc' = IF ok THEN "pin_wait" ELSE "failed"
    /\ qr_wait' = 0
    /\ UNCHANGED <<qr_v2, qr_total, qr_poll, qr_verified, qr_cert_ok,
                   qr_pin_verified, qr_timed_out, qr_login_issued, qr_token>>
    /\ QrFrame

\* One iteration of the while loop of _check_pin_verified.  After the loop
\* returned True both flows go on to the login RPC.
CheckPinVerifiedPoll(outcome) ==
    /\ qr_pc = "pin_wait"
    /\ qr_wait < PIN_WAIT_TIMEOUT
    /\ qr_wait' = qr_wait + PollTime(outcome)
    /\ qr_total' = qr_total + PollTime(outcome)
    /\ qr_poll' = outcome
    /\ qr_pin_verified' = (outcome = "ok")
    /\ qr_pc' = CASE outcome = "ok" -> "login"
                  [] outcome = "timeout" -> "pin_wait"
                  [] OTHER -> "pin_sleep"
    /\ UNCHANGED <<qr_v2, qr_verified, qr_cert_ok, qr_pin_created,
                   qr_timed_out, qr_login_issued, qr_token>>
    /\ QrFrame

\* time.sleep(2) after a polling error of _check_pin_verified.
CheckPinVerifiedSleep ==
    /\ qr_pc = "pin_sleep"
    /\ qr_wait' = qr_wait + POLL_ERROR_SLEEP
    /\ qr_total' = qr_total + POLL_ERROR_SLEEP
    /\ qr_pc' = "pin_wait"
    /\ UNCHANGED <<qr_v2, qr_poll, qr_verified, qr_cert_ok, qr_pin_created,
                   qr_pin_verified, qr_timed_out, qr_login_issued, qr_token>>
    /\ QrFrame

\* What the v1 flow does with a False from _check_pin_verified: it raises
\* LoginError("PIN verification failed or timed out").
PinTimeoutV1 == "failed"

\* What the v2 flow does with it: the call is a statement whose value is
\* dropped, and the next statement is the login RPC.
PinTimeoutV2 == "login"

\* _check_pin_verified leaves its loop and returns False.
CheckPinVerifiedDeadline ==
    /\ qr_pc = "pin_wait"
    /\ qr_wait >= PIN_WAIT_TIMEOUT
    /\ qr_timed_out' = TRUE
    /\ qr_pc' = IF qr_v2 THEN PinTimeoutV2 ELSE PinTimeoutV1
    /\ UNCHANGED <<qr_v2, qr_wait, qr_total, qr_poll, qr_verified,
                   qr_cert_ok, qr_pin_created, qr_pin_verified,
                   qr_login_issued, qr_token>>
    /\ QrFrame

\* TokenManager.save_login_result for a qrCodeLoginV2 response that carries
\* an access token, a refresh token, an expiry and the account's mid.
save_login_result(st, token, refresh) ==
    [st EXCEPT !.auth_token = token, !.refresh_token = refresh,
               !.expire = 1, !.mid = "u1"]

\* _qr_code_login / _qr_code_login_v2 and what follows it: the flow raises
\* when the RPC fails or answers without a token; otherwise the token goes
\* back to BaseClient.login_with_qr(save), which installs it, saves it and
\* the v2 login result, and fetches the profile.
QrCodeLogin(answer, token, refresh, save, profileOk) ==
    /\ qr_pc = "login"
    /\ qr_login_issued' = TRUE
    /\ IF answer = "token"
       THEN /\ qr_pc' = "done"
            /\ qr_token' = token
            /\ auth_token' = token
            /\ request_auth_token' = token
            /\ LET s1 == set_auth_token(storage, token)
                   s2 == IF save /\ qr_v2
                         THEN save_login_result(s1, token, refresh) ELSE s1
               IN  IF profileOk
                   THEN /\ mid' = "u1"
                        /\ storage' = IF save THEN [s2 EXCEPT !.mid = "u1"]
                                      ELSE s2
                        /\ last' = [op |-> "login_with_qr", ret |-> token,
                                    raised |-> FALSE, net |-> TRUE,
                                    save |-> save]
                   ELSE /\ mid' = mid
                        /\ storage' = s2
                        /\ last' = [op |-> "login_with_qr", ret |-> None,
                                    raised |-> TRUE, net |-> TRUE,
                                    save |-> save]
       ELSE /\ qr_pc' = "failed"
            /\ qr_token' = None
            /\ last' = [op |-> "login_with_qr", ret |-> None,
                        raised |-> TRUE, net |-> TRUE,
                        save |-> save]
            /\ UNCHANGED <<auth_token, request_auth_token, mid, storage>>
    /\ UNCHANGED <<device, qr_v2, qr_wait, qr_total, qr_poll, qr_verified,
                   qr_cert_ok, qr_pin_created, qr_pin_verified,
                   qr_timed_out, notQr>>

NextQr ==
    \/ \E v3 \in {<<>>, <<TRUE>>, <<FALSE>>}, ok \in BOOLEAN : QrStart(v3, ok)
    \/ \E outcome \in PollOutcomes : CheckQrVerifiedPoll(outcome)
    \/ CheckQrVerifiedSleep
    \/ CheckQrVerifiedDeadline
    \/ \E ok \in BOOLEAN : VerifyCertificate(ok)
    \/ \E ok \in BOOLEAN : CreatePinCode(ok)
    \/ \E outcome \in PollOutcomes : CheckPinVerifiedPoll(outcome)
    \/ CheckPinVerifiedSleep
    \/ CheckPinVerifiedDeadline
    \/ \E answer \in LoginAnswers, token \in {"t1"}, refresh \in {"r1"},
          save \in BOOLEAN, profileOk \in BOOLEAN :
            QrCodeLogin(answer, token, refresh, save, profileOk)

\* A client with no credentials on a device of either kind.
InitQr ==
    /\ device \in {"DESKTOPWIN", "IOSIPAD"}
    /\ auth_token = None
    /\ request_auth_token = None
    /\ mid = None
    /\ storage = EmptyStorage
    /\ last = NoCall
    /\ ConnIdle /\ ServerIdle /\ PushIdle /\ PollIdle /\ ExtIdle

SpecQr == InitQr /\ [][NextQr]_vars

\* C11: the login RPC is issued only after checkQrCodeVerified succeeded and
\* either verifyCertificate succeeded or createPinCode was followed by a
\* successful checkPinCodeVerified; a flow whose QR wait or PIN wait timed
\* out issues no login RPC, returns no token and saves none.
C11_LoginOnlyAfterVerification ==
    /\ qr_login_issued
           => /\ qr_verified
              /\ qr_cert_ok \/ (qr_pin_created /\ qr_pin_verified)
    /\ qr_timed_out
           => /\ ~qr_login_issued
              /\ qr_token = None
              /\ storage.auth_token = None

\* C12: no wait loop runs past its 300 s deadline plus one request in
\* flight, and the waits of the whole flow together stay within the same
\* 300 s deadline plus one request in flight.
C12_FlowWaitWithinDeadline ==
    /\ qr_wait <= QR_WAIT_TIMEOUT + POLL_REQUEST_TIMEOUT
    /\ qr_total <= QR_WAIT_TIMEOUT + POLL_REQUEST_TIMEOUT

\* C13: a long-poll request that ended in an error other than a timeout has
\* ended the flow in failure; one that timed out has not.
C13_PollErrorAbortsFlow ==
    /\ qr_poll = "error" => qr_pc = "failed"
    /\ qr_poll = "timeout" /\ ~qr_timed_out
           => qr_pc \in {"qr_wait", "pin_wait"}

(***************************************************************************)
(* Sign-on responses: the packet_type == 3 branch of                       *)
(* PushConnection._on_packet_received.  A payload is a sequence of bytes:  *)
(* a big-endian 16-bit word whose top bit is FIN and whose low 15 bits are *)
(* the request id, then the fragment's data.                               *)
(***************************************************************************)

MaxSignFrames == 4

\* The request ids the server answers and the data one fragment carries.
SignIds == {1, 300}
SignData == {<<>>, <<7>>, <<8>>}

\* The payload the server sends for one fragment.
SignOnFrame(id, fin, data) ==
    <<(IF fin THEN 128 ELSE 0) + (id \div 256), id % 256>> \o data

\* The fragments, and payloads too short to carry the 16-bit word.
Fragments == [id : SignIds, fin : BOOLEAN, data : SignData]
ShortPayloads == {<<>>, <<128>>}

\* struct.unpack("!H", payload[0:2])
Unpack16(payload) == payload[1] * 256 + payload[2]

\* req & 32767
RequestIdMutant(req) == req
RequestId(req) == req % 32768

\* (req & 32768) != 0
IsFin(req) == (req \div 32768) % 2 = 1

\* payload[2:]
ResponsePayload(payload) == SubSeq(payload, 3, Len(payload))

\* del d[key] (or d.pop(key, None)) and d[key] = value on a Python dict;
\* deleting a key that is absent changes nothing.
DictDel(d, key) == [k \in (DOMAIN d) \ {key} |-> d[k]]
DictSet(d, key, value) ==
    [k \in (DOMAIN d) \cup {key} |-> IF k = key THEN value ELSE d[k]]

\* PushManager.on_sign_on_response(request_id, is_fin, data): the handler
\* does no more than log the response.
on_sign_on_response(request_id, is_fin, data) ==
    sign_calls' = Append(sign_calls, [id |-> request_id, data |-> data])

\* _on_packet_received(3, payload)
OnSignOnPacket(payload) ==
    IF Len(payload) < 2
    THEN UNCHANGED <<not_fin_payloads, sign_calls>>
    ELSE LET req == Unpack16(payload)
             request_id == RequestId(req)
             is_fin == IsFin(req)
             response_payload == ResponsePayload(payload)
         IN  IF is_fin
             THEN IF request_id \in DOMAIN not_fin_payloads
                  THEN /\ not_fin_payloads' =
                              DictDel(not_fin_payloads, request_id)
                       /\ on_sign_on_response(request_id, is_fin,
                              not_fin_payloads[request_id]
                                  \o response_payload)
                  ELSE /\ UNCHANGED not_fin_payloads
                       /\ on_sign_on_response(request_id, is_fin,
                                              response_payload)
             ELSE /\ not_fin_payloads' =
                         DictSet(not_fin_payloads, request_id,
                                 (IF request_id \in DOMAIN not_fin_payloads
                                  THEN not_fin_payloads[request_id]
                                  ELSE <<>>) \o response_payload)
                  /\ UNCHANGED sign_calls

\* The server sends one fragment and the connection handles its packet.
SignOnFragment(f) ==
    /\ sign_n < MaxSignFrames
    /\ sign_n' = sign_n + 1
    /\ sign_stream' = Append(sign_stream, f)
    /\ OnSignOnPacket(SignOnFrame(f.id, f.fin, f.data))
    /\ UNCHANGED notSign

\* A type-3 packet with fewer than two bytes of payload arrives.
SignOnShort(payload) ==
    /\ sign_n < MaxSignFrames
    /\ sign_n' = sign_n + 1
    /\ OnSignOnPacket(payload)
    /\ UNCHANGED <<sign_stream, notSign>>

NextSign ==
    \/ \E f \in Fragments : SignOnFragment(f)
    \/ \E payload \in ShortPayloads : SignOnShort(payload)

InitSign ==
    AuthIdle /\ ConnIdle /\ ServerIdle /\ PushIdle /\ PollIdle /\ ExtIdle

SpecSign == InitSign /\ [][NextSign]_vars

RECURSIVE PartialOf(_, _)
\* The data of the fragments of one id that have arrived since that id's
\* latest FIN fragment, in arrival order.
PartialOf(stream, id) ==
    IF stream = <<>> THEN <<>>
    ELSE LET f == stream[Len(stream)]
             rest == SubSeq(stream, 1, Len(stream) - 1)
         IN  IF f.id # id THEN PartialOf(rest, id)
             ELSE IF f.fin THEN <<>>
             ELSE PartialOf(rest, id) \o f.data

RECURSIVE CompletedOf(_)
\* One completed response per FIN fragment, in arrival order: the data of
\* the fragments of its id since the FIN before it.
CompletedOf(stream) ==
    IF stream = <<>> THEN <<>>
    ELSE LET f == stream[Len(stream)]
             rest == SubSeq(stream, 1, Len(stream) - 1)
         IN  IF f.fin
             THEN Append(CompletedOf(rest),
                         [id |-> f.id, data |-> PartialOf(rest, f.id) \o f.data])
             ELSE CompletedOf(rest)

\* The last fragment of one id that has arrived had FIN set.
LastWasFin(stream, id) ==
    LET S == {k \in 1..Len(stream) : stream[k].id = id}
    IN  S # {} /\ stream[CHOOSE k \in S : \A j \in S : j <= k].fin

\* C14: the on_sign_on_response calls are exactly one per FIN fragment, each
\* with the fragments of its id concatenated in arrival order; a partial
\* buffer holds exactly what has arrived for its id since that id's latest
\* FIN, and an id has no buffer right after its FIN.
C14_SignOnReassembly ==
    /\ sign_calls = CompletedOf(sign_stream)
    /\ \A id \in DOMAIN not_fin_payloads :
           not_fin_payloads[id] = PartialOf(sign_stream, id)
    /\ \A id \in SignIds :
           /\ id \notin DOMAIN not_fin_payloads
                  => PartialOf(sign_stream, id) = <<>>
           /\ LastWasFin(sign_stream, id) => id \notin DOMAIN not_fin_payloads
    /\ DOMAIN not_fin_payloads \subseteq SignIds

\* A response of two fragments has been delivered while a fragment of the
\* other id, which arrived in between, is still waiting for its FIN.
C14_Witness ==
    /\ \E k \in 1..Len(sign_calls) : Len(sign_calls[k].data) = 2
    /\ \E id \in DOMAIN not_fin_payloads : not_fin_payloads[id] # <<>>
    /\ Len(sign_stream) >= 3
    /\ sign_stream[1].id # sign_stream[2].id
    /\ sign_stream[2].id # sign_stream[3].id

(***************************************************************************)
(* Delivery of one fetched batch to the user's on_event handler: the       *)
(* "Process events" loop of PushManager._fetch_square_events and           *)
(* DispatchWorker.run.  Events are numbered 1..n in batch order; the       *)
(* handler raises for the events in raising.                               *)
(***************************************************************************)

MaxBatch == 3

\* The application installs a handler; which events it raises for is its
\* own business.
InstallHandler(R) ==
    /\ fe_pc = "idle"
    /\ dw_put = 0
    /\ raising = {}
    /\ R # {}
    /\ raising' = R
    /\ UNCHANGED <<fe_pc, fe_events, fe_idx, fe_handed, dw_alive, dw_queue,
                   dw_put, dw_handed, notDeliver>>

\* _fetch_square_events has a response with n events in hand and its cursors
\* updated; the for loop over the events begins.
ProcessEvents(n) ==
    /\ fe_pc = "idle"
    /\ fe_events = 0
    /\ fe_events' = n
    /\ fe_idx' = 1
    /\ fe_pc' = "loop"
    /\ UNCHANGED <<fe_handed, dw_alive, dw_queue, dw_put, dw_handed, raising,
                   notDeliver>>

\* Where the for loop of _fetch_square_events goes when self.on_event
\* raised: the call is not guarded, so the exception leaves the loop for the
\* except clause of the chat's try statement, which logs it.
AfterHandlerRaised(idx, n) == "done"

\* One iteration of  for event in events: self.on_event(SQUARE, event).
FetchOnEvent ==
    /\ fe_pc = "loop"
    /\ fe_handed' = fe_handed \cup {fe_idx}
    /\ fe_pc' = IF fe_idx \in raising
                THEN AfterHandlerRaised(fe_idx, fe_events)
                ELSE IF fe_idx < fe_events THEN "loop" ELSE "done"
    /\ fe_idx' = fe_idx + 1
    /\ UNCHANGED <<fe_events, dw_alive, dw_queue, dw_put, dw_handed, raising,
                   notDeliver>>

\* The tail of ChatWorker._fetch_once: every event of the response is put in
\* the queue.
QueuePut(n) ==
    /\ dw_put = 0
    /\ dw_put' = n
    /\ dw_queue' = [k \in 1..n |-> k]
    /\ UNCHANGED <<fe_pc, fe_events, fe_idx, fe_handed, dw_alive, dw_handed,
                   raising, notDeliver>>

\* One iteration of DispatchWorker.run that finds an event: on_event is
\* called inside a try of its own whose except logs the exception.
DispatchOnEvent ==
    /\ dw_alive
    /\ dw_queue # <<>>
    /\ dw_handed' = dw_handed \cup {Head(dw_queue)}
    /\ dw_queue' = Tail(dw_queue)
    /\ UNCHANGED <<fe_pc, fe_events, fe_idx, fe_handed, dw_alive, dw_put,
                   raising, notDeliver>>

NextDeliver ==
    \/ \E R \in SUBSET (1..MaxBatch) : InstallHandler(R)
    \/ \E n \in 1..MaxBatch : ProcessEvents(n)
    \/ FetchOnEvent
    \/ \E n \in 1..MaxBatch : QueuePut(n)
    \/ DispatchOnEvent

InitDeliver ==
    LoggedIn /\ ConnIdle /\ ServerIdle /\ PushIdle /\ PollIdle /\ ExtIdle

SpecDeliver == InitDeliver /\ [][NextDeliver]_vars

\* C15: an exception of on_event stops nothing: when the push-driven loop
\* is through with a response every event of it has been handed to the
\* handler, and the dispatcher stays alive and hands over every event that
\* was queued.
C15_HandlerErrorKeepsDelivery ==
    /\ fe_pc = "done" => fe_handed = 1..fe_events
    /\ dw_alive
    /\ dw_queue = <<>> => dw_handed = 1..dw_put

(***************************************************************************)
(* The push session's run loop: PushManager.start, stop, _run_loop,        *)
(* _initialize_connection, _init_and_read and the end of                   *)
(* PushConnection.read_loop.  Each _run_loop thread holds one              *)
(* PushConnection at a time in its local variable conn.                    *)
(***************************************************************************)

\* No thread of _run_loop occupies the slot.
LoopFree(t) == l_pc[t] \in {"unborn", "exited"}

\* PushManager.start(watched_chats): refused while running; otherwise the
\* list is replaced, the flag is set and a thread is started on _run_loop.
LoopStart(chats, t) ==
    /\ ~p_running
    /\ LoopFree(t)
    /\ \A u \in Loops : u < t => ~LoopFree(u)
    /\ watched_chats' = chats
    /\ p_running' = TRUE
    /\ l_pc' = [l_pc EXCEPT ![t] = "top"]
    /\ l_sock' = [l_sock EXCEPT ![t] = FALSE]
    /\ l_closed' = [l_closed EXCEPT ![t] = FALSE]
    /\ UNCHANGED <<connections, chat_sync_tokens, srvVars, notLoop>>

\* PushConnection.close()
Close(S) ==
    /\ l_closed' = [t \in Loops |-> IF t \in S THEN TRUE ELSE l_closed[t]]
    /\ l_sock' = [t \in Loops |-> IF t \in S THEN FALSE ELSE l_sock[t]]

\* PushManager.stop(): clears the flag, closes every connection in
\* self.connections and empties the list.
LoopStop ==
    /\ p_running
    /\ p_running' = FALSE
    /\ Close(connections)
    /\ connections' = {}
    /\ UNCHANGED <<l_pc, watched_chats, chat_sync_tokens, srvVars, notLoop>>

\* The test of  while self._running and self.client.auth_token.
LoopTop(t) ==
    /\ l_pc[t] = "top"
    /\ l_pc' = [l_pc EXCEPT ![t] =
                  IF p_running /\ auth_token \notin {None, ""}
                  THEN "refresh" ELSE "exited"]
    /\ UNCHANGED <<l_sock, l_closed, connections, p_running, watched_chats,
                   chat_sync_tokens, srvVars, notLoop>>

\* _refresh_sync_tokens(): a limit=1 call for every watched chat with no
\* sync token in memory; a call that raises is logged and skipped.
LoopRefresh(t, answers) ==
    /\ l_pc[t] = "refresh"
    /\ \A c \in Chats :
         IF NeedsProbe(c)
         THEN answers[c].raised \/ answers[c] \in ProbeResponses(c)
         ELSE answers[c] = Raised(FALSE)
    /\ chat_sync_tokens' =
         [c \in Chats |->
            IF NeedsProbe(c) THEN answers[c].sync ELSE chat_sync_tokens[c]]
    /\ l_pc' = [l_pc EXCEPT ![t] = "dial"]
    /\ UNCHANGED <<l_sock, l_closed, connections, p_running, watched_chats,
                   srvVars, notLoop>>

\* self.connections = [] and the head of _initialize_connection: a new
\* PushConnection replaces the thread's conn and is appended to the list.
\* The connection the thread held before is dropped as it is.
LoopNewConnection(t) ==
    /\ l_pc[t] = "dial"
    /\ connections' = {t}
    /\ l_sock' = [l_sock EXCEPT ![t] = FALSE]
    /\ l_closed' = [l_closed EXCEPT ![t] = FALSE]
    /\ l_pc' = [l_pc EXCEPT ![t] = "connect"]
    /\ UNCHANGED <<p_running, watched_chats, chat_sync_tokens, srvVars,
                   notLoop>>

\* How PushConnection.connect can end: with the stream open, with no socket
\* (create_connection or the TLS handshake raised), or with the socket open
\* and the first sendall raising.
ConnectOutcomes == {"open", "refused", "send_failed"}

\* conn.connect(host, 443, path, headers): it sets writer and conn, so a
\* close() that came before it does not keep the socket from opening.
LoopConnect(t, outcome) ==
    /\ l_pc[t] = "connect"
    /\ l_sock' = [l_sock EXCEPT ![t] = outcome # "refused"]
    /\ l_pc' = [l_pc EXCEPT ![t] = IF outcome = "open" THEN "init" ELSE "after"]
    /\ UNCHANGED <<l_closed, connections, p_running, watched_chats,
                   chat_sync_tokens, srvVars, notLoop>>

\* _init_and_read up to read_loop: the status frame and the sign-on request
\* are written; a write on a socket that is closed or broken raises.
LoopInit(t, ok) ==
    /\ l_pc[t] = "init"
    /\ ~l_sock[t] => ~ok
    /\ l_pc' = [l_pc EXCEPT ![t] = IF ok THEN "read" ELSE "after"]
    /\ UNCHANGED <<l_sock, l_closed, connections, p_running, watched_chats,
                   chat_sync_tokens, srvVars, notLoop>>

\* read_loop ends: the server closed the socket or ended the stream, a read
\* raised, the connection idled out, or _closed was set.  Its finally clause
\* closes the connection.
LoopReadEnd(t) ==
    /\ l_pc[t] = "read"
    /\ Close({t})
    /\ l_pc' = [l_pc EXCEPT ![t] = "after"]
    /\ UNCHANGED <<connections, p_running, watched_chats, chat_sync_tokens,
                   srvVars, notLoop>>

\* The foot of the loop body:  if self._running: time.sleep(3).
LoopAfter(t) ==
    /\ l_pc[t] = "after"
    /\ l_pc' = [l_pc EXCEPT ![t] = IF p_running THEN "sleep" ELSE "top"]
    /\ UNCHANGED <<l_sock, l_closed, connections, p_running, watched_chats,
                   chat_sync_tokens, srvVars, notLoop>>

\* The 3 s are over.
LoopWake(t) ==
    /\ l_pc[t] = "sleep"
    /\ l_pc' = [l_pc EXCEPT ![t] = "top"]
    /\ UNCHANGED <<l_sock, l_closed, connections, p_running, watched_chats,
                   chat_sync_tokens, srvVars, notLoop>>

\* A member posts to a chat.
LoopServerEvent(c) ==
    /\ ServerEvent(c, MaxPushEvents)
    /\ UNCHANGED <<loopVars, p_running, watched_chats, chat_sync_tokens,
                   notLoop>>

NextLoop ==
    \/ \E l \in ChatLists, t \in Loops : LoopStart(l, t)
    \/ LoopStop
    \/ \E t \in Loops : LoopTop(t)
    \/ \E t \in Loops, a \in ProbeAnswers : LoopRefresh(t, a)
    \/ \E t \in Loops : LoopNewConnection(t)
    \/ \E t \in Loops, outcome \in ConnectOutcomes : LoopConnect(t, outcome)
    \/ \E t \in Loops, ok \in BOOLEAN : LoopInit(t, ok)
    \/ \E t \in Loops : LoopReadEnd(t)
    \/ \E t \in Loops : LoopAfter(t)
    \/ \E t \in Loops : LoopWake(t)
    \/ \E c \in Chats : LoopServerEvent(c)

InitLoop ==
    LoggedIn /\ ConnIdle /\ ServerIdle /\ PushIdle /\ PollIdle /\ ExtIdle

SpecLoop == InitLoop /\ [][NextLoop]_vars

\* C16: once stop() has cleared the running flag no connection is dialled:
\* a run loop opens a socket only while the session is running.
C16_NoDialAfterStop ==
    [][\A t \in Loops : (l_sock'[t] /\ ~l_sock[t]) => p_running]_vars

\* C17: a run loop that waits its 3 s before redialling has closed the
\* connection it had, and while the session stays running neither the
\* watched chats nor a sync token or continuation token already known
\* changes.
C17_ReconnectClosesAndKeepsCursors ==
    /\ [](\A t \in Loops : l_pc[t] = "sleep" => ~l_sock[t])
    /\ [][p_running /\ p_running'
            => /\ watched_chats' = watched_chats
               /\ \A c \in Chats :
                    /\ chat_sync_tokens[c] # NoToken
                          => chat_sync_tokens'[c] = chat_sync_tokens[c]
                    /\ chat_continuation_tokens[c] # NoToken
                          => chat_continuation_tokens'[c]
                                 = chat_continuation_tokens[c]]_vars

\* C36: whatever start and stop calls are made, at most one _run_loop
\* thread is alive and at most one push connection is open.
C36_OneRunLoopOneConnection ==
    /\ Cardinality({t \in Loops : ~LoopFree(t)}) <= 1
    /\ Cardinality({t \in Loops : l_sock[t]}) <= 1

(***************************************************************************)
(* FileStorage: _read, _write, set, delete and clear, called from threads  *)
(* of one process on one file, and a crash of the process.                 *)
(***************************************************************************)

MaxValue == 2

Keys == {"k1", "k2"}
Values == 0..MaxValue

\* The mutations of FileStorage.
Mutations ==
    [kind : {"set"}, key : Keys, value : Values \ {0}]
    \cup [kind : {"delete"}, key : Keys, value : {0}]
    \cup {[kind |-> "clear", key |-> "k1", value |-> 0]}

\* FileStorage._read: json.load of the file; a file that does not parse
\* gives {}.
Read(f) == IF f.json THEN f.data ELSE EmptyDict

\* The head of set / delete: data = self._read() and the change of the
\* local dict; clear has no read and writes {}.
Mutate(t, m) ==
    /\ ~crashed
    /\ fs_pc[t] = "idle"
    /\ fs_op[t] = NoOp
    /\ fs_op' = [fs_op EXCEPT ![t] = m]
    /\ fs_data' = [fs_data EXCEPT ![t] =
                     CASE m.kind = "set" -> DictSet(Read(file), m.key, m.value)
                       [] m.kind = "delete" -> DictDel(Read(file), m.key)
                       [] OTHER -> EmptyDict]
    /\ fs_pc' = [fs_pc EXCEPT ![t] = "write"]
    /\ UNCHANGED <<file, fs_overlap, fs_whole, crashed, notFile>>

\* _write: open(self.path, "w") truncates the file.
WriteOpen(t) ==
    /\ ~crashed
    /\ fs_pc[t] = "write"
    /\ file' = Torn
    /\ fs_overlap' = [fs_overlap EXCEPT ![t] = FALSE]
    /\ fs_pc' = [fs_pc EXCEPT ![t] = "dump"]
    /\ UNCHANGED <<fs_op, fs_data, fs_whole, crashed, notFile>>

\* _write: json.dump and the close of the with statement.  The bytes go to
\* the start of the file; when another caller's dump was written since this
\* caller's open, what is left of it behind these bytes may make the file
\* unparseable (whole is FALSE).
WriteDump(t, whole) ==
    /\ ~crashed
    /\ fs_pc[t] = "dump"
    /\ ~fs_overlap[t] => whole
    /\ file' = IF whole THEN Json(fs_data[t]) ELSE Torn
    /\ fs_whole' = IF whole THEN fs_data[t] ELSE fs_whole
    /\ fs_overlap' = [u \in Callers |-> u # t /\ fs_pc[u] = "dump"]
    /\ fs_pc' = [fs_pc EXCEPT ![t] = "done"]
    /\ UNCHANGED <<fs_op, fs_data, crashed, notFile>>

\* The process crashes; nothing more is written.
Crash ==
    /\ ~crashed
    /\ \E t \in Callers : fs_pc[t] # "idle"
    /\ crashed' = TRUE
    /\ UNCHANGED <<file, fs_pc, fs_op, fs_data, fs_overlap, fs_whole, notFile>>

NextFile ==
    \/ \E t \in Callers, m \in Mutations : Mutate(t, m)
    \/ \E t \in Callers : WriteOpen(t)
    \/ \E t \in Callers, whole \in BOOLEAN : WriteDump(t, whole)
    \/ Crash

InitFile ==
    AuthIdle /\ ConnIdle /\ ServerIdle /\ PushIdle /\ PollIdle /\ ExtIdle

SpecFile == InitFile /\ [][NextFile]_vars

\* C19: when the calls of set on different keys have all completed, the
\* store holds every one of the new values.
C19_NoLostUpdate ==
    (/\ \A t \in Callers : fs_pc[t] = "done" /\ fs_op[t].kind = "set"
     /\ \A t, u \in Callers : t # u => fs_op[t].key # fs_op[u].key)
        => \A t \in Callers :
             /\ fs_op[t].key \in DOMAIN Read(file)
             /\ Read(file)[fs_op[t].key] = fs_op[t].value

\* C20: after a crash a read yields the complete contents of the latest
\* completed write or the complete contents a write in progress was
\* putting in their place.
C20_CrashLeavesOldOrNew ==
    crashed
        => Read(file) \in {fs_whole}
                \cup {fs_data[t] : t \in {u \in Callers : fs_pc[u] = "dump"}}

(***************************************************************************)
(* The session's calls that start and stop event fetching:                 *)
(* BaseClient.start_push, stop_push, start_polling, stop_polling, and      *)
(* PushManager.start called with a list of its own.                        *)
(***************************************************************************)

\* The record of a call.
Called(name, warned) ==
    /\ s_n < MaxSessionCalls
    /\ s_n' = s_n + 1
    /\ s_op' = [name |-> name, warned |-> warned]

\* "if self._running: logger.warning(... already running); return", the
\* first statement of PushManager.start and of PollingManager.start.
AlreadyRunningMutant(running) == FALSE
AlreadyRunning(running) == running

\* The chats of mids that add_watched_chat appends to the list l.
Added(mids, l) == SelectSeq(mids, LAMBDA c : ~InList(c, l))

\* BaseClient.start_push(chat_mids, on_event): add_watched_chat for every
\* mid, which appends to the list PushManager.watched_chats refers to and
\* loads the chat's stored tokens; then push.start(services=[3]), whose
\* watched_chats parameter takes its default, the one list object made when
\* the def statement ran.
start_push(chat_mids) ==
    LET added == Added(chat_mids, watched_chats)
        watched1 == watched_chats \o added
        default1 == IF uses_default THEN watched1 ELSE default_chats
        loaded(saved, mem) ==
            [c \in Chats |->
               IF InList(c, added) /\ saved[c] # NoToken
               THEN saved[c] ELSE mem[c]]
        saved_sync == [c \in Chats |-> get_square_sync_token(storage, c)]
        saved_cont ==
            [c \in Chats |-> get_square_continuation_token(storage, c)]
    IN  /\ Called("start_push", AlreadyRunning(p_running))
        /\ sp_mids' = chat_mids
        /\ chat_sync_tokens' =
               loaded(saved_sync, chat_sync_tokens)
        /\ chat_continuation_tokens' =
               loaded(saved_cont, chat_continuation_tokens)
        /\ default_chats' = default1
        /\ IF AlreadyRunning(p_running)
           THEN /\ watched_chats' = watched1
                /\ UNCHANGED <<p_running, uses_default, t_list>>
           ELSE /\ watched_chats' = default1
                /\ uses_default' = TRUE
                /\ p_running' = TRUE
                /\ t_list' = [t \in Threads |->
                                IF ~uses_default /\ t_list[t] = Shared
                                   /\ t_pc[t] \in {"next", "probe", "fetch",
                                                   "fetched"}
                                THEN watched1 ELSE t_list[t]]
        /\ UNCHANGED <<fetch_lock, t_pc, t_idx, t_chat, t_sync, t_cont,
                       srvVars, storage, pollVars, notSession>>

\* BaseClient.stop_push(): PushManager.stop() on the manager, if there is one.
stop_push ==
    /\ Called("stop_push", FALSE)
    /\ PushStopEffect
    /\ UNCHANGED <<default_chats, uses_default, sp_mids, pollVars, notSession>>

\* PushManager.start(watched_chats=chats) with a list of the caller's.
push_start(chats, same) ==
    /\ Called("push.start", AlreadyRunning(p_running))
    /\ IF AlreadyRunning(p_running)
       THEN UNCHANGED <<pushVars, srvVars, storage, uses_default>>
       ELSE /\ PushStartEffect(chats, same)
            /\ uses_default' = (same /\ uses_default)
    /\ UNCHANGED <<default_chats, sp_mids, pollVars, notSession>>

\* BaseClient.start_polling(chat_mids, on_event): PollingManager.start with
\* chat_mids as its watched_chats.
start_polling(chat_mids) ==
    /\ Called("polling.start", AlreadyRunning(pm_running))
    /\ IF AlreadyRunning(pm_running)
       THEN UNCHANGED <<pollVars, srvVars, storage>>
       ELSE PollStartEffect(chat_mids)
    /\ UNCHANGED <<default_chats, uses_default, sp_mids, pushVars, notSession>>

\* BaseClient.stop_polling(): PollingManager.stop(), which returns at once
\* when polling is not running.
stop_polling ==
    /\ Called("stop_polling", FALSE)
    /\ IF ~pm_running
       THEN UNCHANGED <<pollVars, srvVars, storage>>
       ELSE PollStopEffect
    /\ UNCHANGED <<default_chats, uses_default, sp_mids, pushVars, notSession>>

NextSession ==
    \/ \E l \in ChatLists : start_push(l)
    \/ stop_push
    \/ \E l \in ChatLists, same \in BOOLEAN : push_start(l, same)
    \/ \E l \in ChatLists : start_polling(l)
    \/ stop_polling

InitSession ==
    LoggedIn /\ ConnIdle /\ ServerIdle /\ PushIdle /\ PollIdle /\ ExtIdle

SpecSession == InitSession /\ [][NextSession]_vars

\* C21: the PushManager and the PollingManager of one client are never both
\* running.
C21_PushAndPollingExclusive == ~(p_running /\ pm_running)

\* C24: after start_push(chat_mids) the push manager watches every chat of
\* chat_mids.
C24_StartPushWatchesItsChats ==
    s_op.name = "start_push" => \A c \in Chats :
        InList(c, sp_mids) => InList(c, watched_chats)

\* C26: a call of PushManager.start on a running PushManager, or of
\* PollingManager.start on a running PollingManager, changes nothing of
\* either manager: not the watched chats, the cursors, the threads, the
\* workers or the dispatcher.
C26_StartWhileRunningChangesNothing ==
    [][/\ (s_n' # s_n /\ s_op'.name = "push.start" /\ p_running)
            => UNCHANGED <<pushVars, pollVars, storage, default_chats,
                           uses_default>>
       /\ (s_n' # s_n /\ s_op'.name = "polling.start" /\ pm_running)
            => UNCHANGED <<pushVars, pollVars, storage, default_chats,
                           uses_default>>]_vars

\* A start was refused on a manager that was running with a chat watched,
\* by a call that named other chats.
C26_Witness ==
    /\ s_op.warned
    /\ \/ s_op.name = "push.start" /\ p_running /\ watched_chats # <<>>
       \/ s_op.name = "polling.start" /\ pm_running /\ pm_watched # <<>>

\* ------------------------------------------------------------ SpecStoredToken

\* The seconds the clock runs through and the calls made in one run.
MaxTime == 3
MaxAutoCalls == 2

\* TokenManager.is_token_valid at time t: a token is stored, and the stored
\* expiry, when there is one, is not behind t ("expire and time.time() >
\* expire" rejects).  A store without expiry reads as 0 here.
is_token_validMutant(st, t) == st.auth_token # None

is_token_valid(st, t) ==
    /\ st.auth_token # None
    /\ ~(st.expire # 0 /\ t > st.expire)

\* A call of TokenManager.is_token_valid on the client's store.
IsTokenValid ==
    /\ al_n < MaxAutoCalls
    /\ al_n' = al_n + 1
    /\ last' = [op |-> "is_token_valid",
                ret |-> IF is_token_valid(storage, now)
                        THEN "true" ELSE "false",
                raised |-> FALSE, net |-> FALSE]
    /\ UNCHANGED <<device, auth_token, request_auth_token, mid, storage, now,
                   notClock>>

\* BaseClient.auto_login: without a valid stored token it returns False at
\* once; otherwise it installs the stored token with set_auth_token and
\* fetches the profile, and an exception of that fetch is caught and turned
\* into False.
auto_login(profileOk) ==
    /\ al_n < MaxAutoCalls
    /\ al_n' = al_n + 1
    /\ IF ~is_token_valid(storage, now)
       THEN /\ last' = [op |-> "auto_login", ret |-> "false",
                        raised |-> FALSE, net |-> FALSE, rpcs |-> <<>>,
                        caught |-> FALSE]
            /\ UNCHANGED <<auth_token, request_auth_token, mid, storage>>
       ELSE /\ auth_token' = storage.auth_token
            /\ request_auth_token' = storage.auth_token
            /\ storage' = set_auth_token(storage, storage.auth_token)
            /\ mid' = IF profileOk THEN "u1" ELSE mid
            /\ last' = [op |-> "auto_login",
                        ret |-> IF profileOk THEN "true" ELSE "false",
                        raised |-> FALSE, net |-> TRUE,
                        rpcs |-> <<"getProfile">>, caught |-> ~profileOk]
    /\ UNCHANGED <<device, now, notClock>>

\* A second passes.
Tick ==
    /\ now < MaxTime
    /\ now' = now + 1
    /\ UNCHANGED <<authVars, al_n, notClock>>

NextStoredToken ==
    \/ IsTokenValid
    \/ \E ok \in BOOLEAN : auto_login(ok)
    \/ Tick

\* BaseClient.__init__ on a storage file left by an earlier session, with or
\* without a token and an expiry.
InitStoredToken ==
    /\ device \in Devices
    /\ auth_token = None
    /\ request_auth_token = None
    /\ mid = None
    /\ storage \in [auth_token : {None, "t1"},
                    refresh_token : {None},
                    expire : 0..MaxTime,
                    mid : {None, "u1"},
                    sync : {[c \in Chats |-> NoToken]},
                    cont : {[c \in Chats |-> NoToken]}]
    /\ last = NoCall
    /\ ConnIdle
    /\ ServerIdle
    /\ PushIdle
    /\ PollIdle
    /\ ExtIdle

SpecStoredToken == InitStoredToken /\ [][NextStoredToken]_vars

\* The store holds a token that has no expiry or whose expiry lies ahead.
NonExpired ==
    /\ storage.auth_token # None
    /\ (storage.expire = 0 \/ now < storage.expire)

\* The store holds no token, or one whose expiry lies behind.
NoValidToken ==
    \/ storage.auth_token = None
    \/ (storage.expire # 0 /\ now > storage.expire)

\* The RPCs that log a client in.
LoginRpcs == {"loginZ", "loginV2", "qrCodeLogin", "qrCodeLoginV2"}

\* The step is a call of auto_login.
AutoLoginStep == al_n' # al_n /\ last'.op = "auto_login"

\* auto_login made no RPC and left the store and the client as they were.
NothingDone ==
    /\ last'.rpcs = <<>>
    /\ storage' = storage
    /\ UNCHANGED <<auth_token, request_auth_token, mid>>

\* C27 as stated: with a non-expired stored token auto_login returns true and
\* issues no login RPC; without a valid stored token it returns false, issues
\* no RPC and leaves the store unchanged.
C27_AutoLoginFromStoredToken ==
    [][AutoLoginStep
        => /\ NonExpired
                => /\ last'.ret = "true"
                   /\ \A i \in DOMAIN last'.rpcs : last'.rpcs[i] \notin LoginRpcs
           /\ NoValidToken => (last'.ret = "false" /\ NothingDone)]_vars

\* C27 amended: with a non-expired stored token auto_login installs it,
\* issues the profile fetch and nothing else, and returns true exactly when
\* that fetch succeeds; without a valid stored token it returns false, issues
\* no RPC and leaves the store unchanged.
C27_AutoLoginTrueIffProfileFetched ==
    [][AutoLoginStep
        => /\ NonExpired
                => /\ last'.rpcs = <<"getProfile">>
                   /\ last'.ret = "true" <=> ~last'.caught
                   /\ auth_token' = storage.auth_token
                   /\ request_auth_token' = storage.auth_token
                   /\ storage' = storage
           /\ NoValidToken => (last'.ret = "false" /\ NothingDone)]_vars

\* auto_login found a non-expired token with an expiry, installed it, and
\* returned false because the profile fetch raised.
C27_Witness ==
    /\ last.op = "auto_login"
    /\ last.ret = "false"
    /\ last.caught
    /\ NonExpired
    /\ storage.expire # 0
    /\ auth_token = "t1"

\* C28: is_token_valid returns true exactly when a token is stored and
\* either no expiry is stored or now < expiry.
C28_ValidIffStrictlyBeforeExpiry ==
    [][(al_n' # al_n /\ last'.op = "is_token_valid")
        => (last'.ret = "true" <=> NonExpired)]_vars

\* C38: an auto_login call that returns false leaves the client not logged
\* in: is_logged_in is false and the request client carries no access token.
C38_FailedAutoLoginNotLoggedIn ==
    [][(al_n' # al_n /\ last'.op = "auto_login" /\ last'.ret = "false")
        => /\ auth_token' = None
           /\ request_auth_token' = None]_vars

\* ------------------------------------------------------------- SpecKeepAlive

\* The seconds one run of read_loop is followed for.
MaxSeconds == 130

\* What the server sends: push data, the ACK of an HTTP/2 PING, or the end
\* of the stream (no bytes, StreamEnded).
Arrivals == {"data", "ack", "eof"}

\* A second passes while read_loop is blocked in recv; the socket timeout
\* ends the call RECV_TIMEOUT seconds after it was entered.
KeepTick ==
    /\ k_pc = "recv"
    /\ k_now < k_recv_start + RECV_TIMEOUT
    /\ k_now < StartTime + MaxSeconds
    /\ k_now' = k_now + 1
    /\ UNCHANGED <<k_pc, k_recv_start, k_last_receive, k_last_ping,
                   k_awaiting, k_end, notKeep>>

\* recv returns bytes: _last_receive_time is set, a PingAckReceived event
\* clears _awaiting_pong, the end of the stream leaves the loop; otherwise
\* the loop enters recv again.
KeepRecv(kind) ==
    /\ k_pc = "recv"
    /\ k_last_receive' = k_now
    /\ k_awaiting' = IF kind = "ack" THEN FALSE ELSE k_awaiting
    /\ IF kind = "eof"
       THEN k_pc' = "ended" /\ k_end' = "closed"
       ELSE UNCHANGED <<k_pc, k_end>>
    /\ k_recv_start' = k_now
    /\ UNCHANGED <<k_now, k_last_ping, notKeep>>

\* "if self._awaiting_pong: break" of the keep-alive branch.
UnansweredMutant(awaiting) == FALSE

Unanswered(awaiting) == awaiting

\* recv raises socket.timeout: past the keep-alive threshold an unanswered
\* ping leaves the loop, otherwise a ping is sent (a failed send leaves the
\* loop); then more than IDLE_LIMIT seconds without bytes leave the loop.
KeepTimeout(sendOk) ==
    /\ k_pc = "recv"
    /\ k_now = k_recv_start + RECV_TIMEOUT
    /\ LET due == k_now - k_last_ping > KEEPALIVE_SECONDS
           idle_time == k_now - k_last_receive
       IN  IF due /\ Unanswered(k_awaiting)
           THEN /\ k_pc' = "ended"
                /\ k_end' = "ping"
                /\ UNCHANGED <<k_last_ping, k_awaiting, k_recv_start>>
           ELSE IF due /\ ~sendOk
           THEN /\ k_pc' = "ended"
                /\ k_end' = "send"
                /\ UNCHANGED <<k_last_ping, k_awaiting, k_recv_start>>
           ELSE /\ k_last_ping' = IF due THEN k_now ELSE k_last_ping
                /\ k_awaiting' = IF due THEN TRUE ELSE k_awaiting
                /\ IF idle_time > IDLE_LIMIT
                   THEN /\ k_pc' = "ended"
                        /\ k_end' = "idle"
                        /\ UNCHANGED k_recv_start
                   ELSE /\ k_recv_start' = k_now
                        /\ UNCHANGED <<k_pc, k_end>>
    /\ UNCHANGED <<k_now, k_last_receive, notKeep>>

NextKeepAlive ==
    \/ KeepTick
    \/ \E kind \in Arrivals : KeepRecv(kind)
    \/ \E sendOk \in BOOLEAN : KeepTimeout(sendOk)

InitKeepAlive ==
    LoggedIn /\ ConnIdle /\ ServerIdle /\ PushIdle /\ PollIdle /\ ExtIdle

SpecKeepAlive == InitKeepAlive /\ [][NextKeepAlive]_vars

\* C23: while read_loop keeps the connection, a ping that went unanswered
\* past the keep-alive threshold and the socket timeout that detects it
\* means bytes arrived within the last socket timeout (a connection that
\* stopped receiving has been left), and never have more than IDLE_LIMIT
\* seconds passed since the last bytes.
C23_SilentConnectionIsLeft ==
    k_pc = "recv"
        => /\ k_awaiting
                => \/ k_now - k_last_ping <= KEEPALIVE_SECONDS + RECV_TIMEOUT
                   \/ k_now - k_last_receive <= RECV_TIMEOUT
           /\ k_now - k_last_receive <= IDLE_LIMIT

\* read_loop was left for an unanswered ping sent KEEPALIVE_SECONDS and one
\* socket timeout ago, with no bytes received since.
C23_Witness ==
    /\ k_pc = "ended"
    /\ k_end = "ping"
    /\ k_awaiting
    /\ k_last_receive <= k_last_ping
    /\ k_now - k_last_ping = KEEPALIVE_SECONDS + RECV_TIMEOUT

\* ----------------------------------------------------------------- SpecCodec

\* class TType and class CompactType.
TType ==
    [STOP |-> 0, BOOL |-> 2, BYTE |-> 3, DOUBLE |-> 4, I16 |-> 6, I32 |-> 8,
     I64 |-> 10, STRING |-> 11, STRUCT |-> 12, MAP |-> 13, SET |-> 14,
     LIST |-> 15]

CompactType ==
    [STOP |-> 0, TRUE |-> 1, FALSE |-> 2, BYTE |-> 3, I16 |-> 4, I32 |-> 5,
     I64 |-> 6, DOUBLE |-> 7, BINARY |-> 8, LIST |-> 9, SET |-> 10,
     MAP |-> 11, STRUCT |-> 12]

\* A value in memory: its thrift type t, and by type its number n (a bool
\* is 1 or 0), its bytes b, its elements e with element type et (a map:
\* keys and values in turn, key type kt), or its fields f.
Value(t, n, b, et, kt, e, f) ==
    [t |-> t, n |-> n, b |-> b, et |-> et, kt |-> kt, e |-> e, f |-> f]

Bool(x) == Value(TType.BOOL, IF x THEN 1 ELSE 0, <<>>, 0, 0, <<>>, <<>>)
Num(t, n) == Value(t, n, <<>>, 0, 0, <<>>, <<>>)
Str(b) == Value(TType.STRING, 0, b, 0, 0, <<>>, <<>>)
List(et, e) == Value(TType.LIST, 0, <<>>, et, 0, e, <<>>)
Map(kt, vt, e) == Value(TType.MAP, 0, <<>>, vt, kt, e, <<>>)
Struct(f) == Value(TType.STRUCT, 0, <<>>, 0, 0, <<>>, f)
NoneValue == Value(TType.STOP, 0, <<>>, 0, 0, <<>>, <<>>)
Field(fid, val) == [fid |-> fid, val |-> val]

\* gen_header_compact and gen_header_binary for a method name.
gen_header_compact(name) == <<130, 33, 0, Len(name)>> \o name
gen_header_binary(name) ==
    <<128, 1, 0, 1, 0, 0, 0, Len(name)>> \o name \o <<0, 0, 0, 0>>

\* CompactWriter._write_varint and _write_zigzag.
RECURSIVE write_varint(_)
write_varint(n) ==
    IF n \div 128 # 0
    THEN <<(n % 128) + 128>> \o write_varint(n \div 128)
    ELSE <<n % 128>>

write_zigzag(n) == write_varint(IF n >= 0 THEN 2 * n ELSE -2 * n - 1)

\* ctype_map of write_field_begin and write_list_begin, and the shorter one
\* of write_map_begin.
ctype_map(ftype) ==
    CASE ftype = TType.BOOL -> CompactType.TRUE
      [] ftype = TType.BYTE -> CompactType.BYTE
      [] ftype = TType.I16 -> CompactType.I16
      [] ftype = TType.I32 -> CompactType.I32
      [] ftype = TType.I64 -> CompactType.I64
      [] ftype = TType.DOUBLE -> CompactType.DOUBLE
      [] ftype = TType.STRING -> CompactType.BINARY
      [] ftype = TType.STRUCT -> CompactType.STRUCT
      [] ftype = TType.MAP -> CompactType.MAP
      [] ftype = TType.SET -> CompactType.SET
      [] ftype = TType.LIST -> CompactType.LIST
      [] OTHER -> ftype

map_ctype_map(ftype) ==
    IF ftype \in {TType.MAP, TType.SET, TType.LIST}
    THEN ftype ELSE ctype_map(ftype)

\* The field header of write_field_begin and write_bool for a compact type.
field_header(ctype, fid, last_fid) ==
    LET delta == fid - last_fid IN
    IF 0 < delta /\ delta <= 15
    THEN <<delta * 16 + ctype>>
    ELSE <<ctype>> \o write_zigzag(fid)

write_field_begin(ftype, fid, last_fid) ==
    field_header(ctype_map(ftype), fid, last_fid)

write_binary(b) == write_varint(Len(b)) \o b

write_list_begin(etype, size) ==
    IF size <= 14
    THEN <<size * 16 + ctype_map(etype)>>
    ELSE <<240 + ctype_map(etype)>> \o write_varint(size)

write_map_begin(ktype, vtype, size) ==
    IF size = 0
    THEN <<0>>
    ELSE write_varint(size)
             \o <<map_ctype_map(ktype) * 16 + map_ctype_map(vtype)>>

RECURSIVE write_struct(_)
RECURSIVE write_fields(_, _, _)
RECURSIVE write_value_raw(_, _)
RECURSIVE write_items(_, _, _)

\* _write_value_raw: a value without field header; a bool is one byte, a
\* nested list or map writes nothing.
write_value_raw(ftype, v) ==
    CASE ftype = TType.BOOL -> <<IF v.n # 0 THEN 1 ELSE 0>>
      [] ftype = TType.BYTE -> <<v.n % 256>>
      [] ftype \in {TType.I16, TType.I32, TType.I64} -> write_zigzag(v.n)
      [] ftype = TType.STRING -> write_binary(v.b)
      [] ftype = TType.STRUCT -> write_struct(v.f)
      [] OTHER -> <<>>

\* The loops of _write_value over a list's items and a map's keys and
\* values: types[k] is the type the k-th written value is written with.
write_items(types, e, i) ==
    IF i > Len(e)
    THEN <<>>
    ELSE write_value_raw(types[((i - 1) % Len(types)) + 1], e[i])
             \o write_items(types, e, i + 1)

\* _write_value: a field with its header.  A map comes as [key_type,
\* val_type, dict] and a list as [etype, data]; a struct without params is
\* not written at all.
write_value(ftype, fid, v, last_fid) ==
    CASE ftype = TType.BOOL ->
            field_header(IF v.n # 0 THEN CompactType.TRUE
                         ELSE CompactType.FALSE, fid, last_fid)
      [] ftype = TType.BYTE ->
            write_field_begin(ftype, fid, last_fid) \o <<v.n % 256>>
      [] ftype \in {TType.I16, TType.I32, TType.I64} ->
            write_field_begin(ftype, fid, last_fid) \o write_zigzag(v.n)
      [] ftype = TType.STRING ->
            write_field_begin(ftype, fid, last_fid) \o write_binary(v.b)
      [] ftype = TType.STRUCT ->
            IF v.f = <<>> THEN <<>>
            ELSE write_field_begin(ftype, fid, last_fid) \o write_struct(v.f)
      [] ftype = TType.MAP ->
            write_field_begin(ftype, fid, last_fid)
                \o write_map_begin(v.kt, v.et, Len(v.e) \div 2)
                \o write_items(<<v.kt, v.et>>, v.e, 1)
      [] ftype \in {TType.SET, TType.LIST} ->
            write_field_begin(ftype, fid, last_fid)
                \o write_list_begin(v.et, Len(v.e))
                \o write_items(<<v.et>>, v.e, 1)
      [] OTHER -> <<>>

\* The loop of _write_struct over the params, then write_field_stop.
write_fields(params, i, last_fid) ==
    IF i > Len(params)
    THEN <<0>>
    ELSE LET bytes == write_value(params[i].val.t, params[i].fid,
                                  params[i].val, last_fid)
         IN  bytes \o write_fields(params, i + 1,
                                   IF bytes = <<>> THEN last_fid
                                   ELSE params[i].fid)

write_struct(params) == write_fields(params, 1, 0)

\* write_thrift: for protocol 3 the binary header goes before a body that
\* the CompactWriter wrote all the same.
write_thrift(params, method_name, protocol) ==
    LET header == IF protocol = 4 THEN gen_header_compact(method_name)
                  ELSE gen_header_binary(method_name)
        body == write_struct(params)
    IN  header \o (IF body = <<>> \/ body[Len(body)] # 0
                   THEN body \o <<0>> ELSE body)

\* What a read hands back: the value, the reader's _pos (counted from 1) and
\* _bool_value (1, 0, or -1 for None); ok is false when the read raised.
Got(v, pos, bv) == [ok |-> TRUE, v |-> v, pos |-> pos, bv |-> bv]
Raise == [ok |-> FALSE, v |-> NoneValue, pos |-> 0, bv |-> -1]

\* CompactReader.read_varint and read_zigzag; reading past the end raises.
RECURSIVE read_varint(_, _)
read_varint(data, pos) ==
    IF pos > Len(data)
    THEN [ok |-> FALSE, n |-> 0, pos |-> pos]
    ELSE IF data[pos] \div 128 = 0
    THEN [ok |-> TRUE, n |-> data[pos], pos |-> pos + 1]
    ELSE LET r == read_varint(data, pos + 1) IN
         [ok |-> r.ok, n |-> (data[pos] % 128) + 128 * r.n, pos |-> r.pos]

read_zigzag(data, pos) ==
    LET r == read_varint(data, pos) IN
    [ok |-> r.ok, pos |-> r.pos,
     n |-> IF r.n % 2 = 0 THEN r.n \div 2 ELSE -((r.n + 1) \div 2)]

\* read_message_begin, and _read_binary_message_begin for a 0x80 first byte:
\* where the message body starts.
read_message_begin(data) ==
    IF data = <<>> THEN [ok |-> FALSE, pos |-> 0]
    ELSE IF data[1] = 130
    THEN LET seqid == read_varint(data, 3)
             name_len == read_varint(data, seqid.pos)
         IN  [ok |-> seqid.ok /\ name_len.ok,
              pos |-> name_len.pos + name_len.n]
    ELSE IF data[1] = 128 /\ Len(data) >= 8 /\ data[2] = 1
    THEN [ok |-> TRUE, pos |-> 13 + data[8]]
    ELSE [ok |-> FALSE, pos |-> 0]

\* ctype_to_ttype of read_field_begin; those of read_collection_begin and
\* read_map_begin know fewer types and pass the others through.
ctype_to_ttype(ctype) ==
    CASE ctype = CompactType.STOP -> TType.STOP
      [] ctype \in {CompactType.TRUE, CompactType.FALSE} -> TType.BOOL
      [] ctype = CompactType.BYTE -> TType.BYTE
      [] ctype = CompactType.I16 -> TType.I16
      [] ctype = CompactType.I32 -> TType.I32
      [] ctype = CompactType.I64 -> TType.I64
      [] ctype = CompactType.DOUBLE -> TType.DOUBLE
      [] ctype = CompactType.BINARY -> TType.STRING
      [] ctype = CompactType.LIST -> TType.LIST
      [] ctype = CompactType.SET -> TType.SET
      [] ctype = CompactType.MAP -> TType.MAP
      [] ctype = CompactType.STRUCT -> TType.STRUCT
      [] OTHER -> ctype

element_ttype(ctype) ==
    IF ctype \in {CompactType.LIST, CompactType.SET, CompactType.MAP}
    THEN ctype ELSE ctype_to_ttype(ctype)

\* result[fid] = value of read_struct.
PutField(acc, fid, v) ==
    SelectSeq(acc, LAMBDA x : x.fid # fid) \o <<Field(fid, v)>>

RECURSIVE read_value(_, _, _, _)
RECURSIVE read_fields(_, _, _, _, _)
RECURSIVE read_items(_, _, _, _, _, _)

\* The loops of read_list and read_map: n more values of the given types.
read_items(types, n, data, pos, bv, acc) ==
    IF n = 0
    THEN Got(acc, pos, bv)
    ELSE LET r == read_value(types[(Len(acc) % Len(types)) + 1],
                             data, pos, bv)
         IN  IF ~r.ok THEN Raise
             ELSE read_items(types, n - 1, data, r.pos, r.bv,
                             Append(acc, r.v))

\* read_list with read_collection_begin.
read_list(data, pos, bv) ==
    IF pos > Len(data) THEN Raise
    ELSE LET short == data[pos] \div 16
             etype == element_ttype(data[pos] % 16)
             long == read_varint(data, pos + 1)
             size == IF short = 15 THEN long.n ELSE short
             start == IF short = 15 THEN long.pos ELSE pos + 1
         IN  IF short = 15 /\ ~long.ok THEN Raise
             ELSE LET r == read_items(<<etype>>, size, data, start, bv, <<>>)
                  IN  IF r.ok THEN Got(List(0, r.v), r.pos, r.bv) ELSE Raise

\* read_map with read_map_begin.
read_map(data, pos, bv) ==
    LET size == read_varint(data, pos) IN
    IF ~size.ok THEN Raise
    ELSE IF size.n = 0 THEN Got(Map(0, 0, <<>>), size.pos, bv)
    ELSE IF size.pos > Len(data) THEN Raise
    ELSE LET ktype == element_ttype(data[size.pos] \div 16)
             vtype == element_ttype(data[size.pos] % 16)
             r == read_items(<<ktype, vtype>>, 2 * size.n, data,
                             size.pos + 1, bv, <<>>)
         IN  IF r.ok THEN Got(Map(0, 0, r.v), r.pos, r.bv) ELSE Raise

\* read_value: read_bool hands back _bool_value and reads no byte; every
\* integer comes back as a plain int.
read_value(ftype, data, pos, bv) ==
    CASE ftype = TType.STOP -> Got(NoneValue, pos, bv)
      [] ftype = TType.BOOL ->
            Got(IF bv = -1 THEN NoneValue ELSE Bool(bv = 1), pos, bv)
      [] ftype = TType.BYTE ->
            IF pos > Len(data) THEN Raise
            ELSE Got(Num(TType.I64, IF data[pos] < 128 THEN data[pos]
                                    ELSE data[pos] - 256), pos + 1, bv)
      [] ftype = TType.DOUBLE ->
            IF pos + 7 > Len(data) THEN Raise
            ELSE Got(Value(TType.DOUBLE, 0, SubSeq(data, pos, pos + 7),
                           0, 0, <<>>, <<>>), pos + 8, bv)
      [] ftype \in {TType.I16, TType.I32, TType.I64} ->
            LET r == read_zigzag(data, pos) IN
            IF r.ok THEN Got(Num(TType.I64, r.n), r.pos, bv) ELSE Raise
      [] ftype = TType.STRING ->
            LET size == read_varint(data, pos)
                end == IF size.pos + size.n - 1 > Len(data)
                       THEN Len(data) ELSE size.pos + size.n - 1
            IN  IF size.ok
                THEN Got(Str(SubSeq(data, size.pos, end)),
                         size.pos + size.n, bv)
                ELSE Raise
      [] ftype = TType.STRUCT -> read_fields(data, pos, 0, bv, <<>>)
      [] ftype = TType.MAP -> read_map(data, pos, bv)
      [] ftype \in {TType.SET, TType.LIST} -> read_list(data, pos, bv)
      [] OTHER -> Raise

\* read_struct: read_field_begin and read_value until a STOP type or the
\* end of the data.
read_fields(data, pos, last_fid, bv, acc) ==
    IF pos > Len(data) THEN Got(Struct(acc), pos, bv)
    ELSE IF data[pos] = 0 THEN Got(Struct(acc), pos + 1, bv)
    ELSE LET delta == data[pos] \div 16
             ctype == data[pos] % 16
             long == read_zigzag(data, pos + 1)
             fid == IF delta = 0 THEN long.n ELSE last_fid + delta
             start == IF delta = 0 THEN long.pos ELSE pos + 1
             bv1 == IF ctype = CompactType.TRUE THEN 1
                    ELSE IF ctype = CompactType.FALSE THEN 0 ELSE bv
             ftype == ctype_to_ttype(ctype)
         IN  IF delta = 0 /\ ~long.ok THEN Raise
             ELSE IF ftype = TType.STOP THEN Got(Struct(acc), start, bv1)
             ELSE LET r == read_value(ftype, data, start, bv1) IN
                  IF ~r.ok THEN Raise
                  ELSE read_fields(data, r.pos, fid, r.bv,
                                   PutField(acc, fid, r.v))

read_struct(data, pos) == read_fields(data, pos, 0, -1, <<>>)

\* The field ids, values and method name the round trip is tried on: ids
\* next to each other and more than 15 apart, every field type, a number
\* whose varint takes two bytes.
FieldIds == {1, 2, 20}
MethodName == <<109>>

Values29 ==
    {Bool(TRUE), Bool(FALSE), Num(TType.BYTE, -1), Num(TType.I16, 70),
     Num(TType.I32, -3), Num(TType.I64, 300), Str(<<>>), Str(<<97>>),
     List(TType.I32, <<Num(TType.I32, 70)>>),
     List(TType.I32, <<>>),
     List(TType.BOOL, <<Bool(TRUE)>>),
     Struct(<<Field(20, Bool(FALSE))>>),
     Map(TType.I32, TType.STRING, <<Num(TType.I32, 1), Str(<<97>>)>>)}

Params29 ==
    {<<Field(i, v)>> : i \in FieldIds, v \in Values29}
        \cup {<<Field(ids[1], v), Field(ids[2], w)>> :
                  ids \in {x \in FieldIds \X FieldIds : x[1] # x[2]},
                  v \in Values29, w \in Values29}

\* What the reader's dicts, lists and plain ints can be compared with: the
\* value without its declared integer width, element and key types.
RECURSIVE Plain(_)
Plain(v) ==
    CASE v.t \in {TType.BYTE, TType.I16, TType.I32, TType.I64} ->
            Num(TType.I64, v.n)
      [] v.t = TType.LIST -> List(0, [i \in 1..Len(v.e) |-> Plain(v.e[i])])
      [] v.t = TType.MAP -> Map(0, 0, [i \in 1..Len(v.e) |-> Plain(v.e[i])])
      [] v.t = TType.STRUCT ->
            Struct([i \in 1..Len(v.f) |->
                       Field(v.f[i].fid, Plain(v.f[i].val))])
      [] OTHER -> v

\* write_thrift(params, method_name, protocol).
Encode ==
    /\ c_pc = "input"
    /\ c_pc' = "encoded"
    /\ c_bytes' = write_thrift(c_params, MethodName, c_protocol)
    /\ UNCHANGED <<c_params, c_protocol, c_out, notCodec>>

\* CompactReader(data): read_message_begin, then read_struct.
Decode ==
    /\ c_pc = "encoded"
    /\ c_pc' = "decoded"
    /\ c_out' = LET h == read_message_begin(c_bytes)
                    r == read_struct(c_bytes, h.pos)
                IN  IF h.ok /\ r.ok THEN <<r.v>> ELSE <<>>
    /\ UNCHANGED <<c_params, c_protocol, c_bytes, notCodec>>

NextCodec == Encode \/ Decode

InitCodec ==
    /\ LoggedIn /\ ConnIdle /\ ServerIdle /\ PushIdle /\ PollIdle
    /\ QrIdle /\ SignIdle /\ DeliverIdle /\ LoopIdle /\ FileIdle
    /\ SessionIdle /\ ClockIdle /\ KeepIdle /\ CursorIdle /\ FrameIdle
    /\ c_pc = "input"
    /\ c_params \in Params29
    /\ c_protocol \in {3, 4}
    /\ c_bytes = <<>>
    /\ c_out = <<>>

SpecCodec == InitCodec /\ [][NextCodec]_vars

\* C29: for every struct and both protocols, reading back the bytes the
\* writer produced yields a struct equal to the one written.
C29_RoundTrip ==
    c_pc = "decoded" => c_out = <<Plain(Struct(c_params))>>

\* ---------------------------------------------------------------- SpecCursor
\* One fetch of one chat followed statement by statement, as ChatWorker does
\* it (_init_token, _fetch_once) and as PushManager._fetch_square_events does
\* it for a watched chat.

CursorChat == "c1"

\* What fetchSquareChatEvents(chat, limit=1) may answer when no syncToken is
\* sent: at most one event, the chat's latest, and the syncToken of the
\* stream's latest position, or none.
LimitOneResponses(c) ==
    { [sync |-> sy, cont |-> NoToken, lo |-> l, hi |-> srv[c],
       probe |-> TRUE, raised |-> FALSE, rate |-> FALSE] :
        sy \in {Token(srv[c]), NoToken},
        l \in {x \in {srv[c] - 1, srv[c]} : x >= 0} }

\* The events of a response as the list the code iterates over.
EventList(r) == [k \in 1..(r.hi - r.lo) |-> r.lo + k]

\* The events of a limit=1 response that the fetcher passes on: none, only
\* the syncToken is read from it.
ProbeEventsMutant(r) == EventList(r)
ProbeEvents(r) == <<>>

\* Whether the new syncToken is written to the store: ChatWorker writes it
\* whenever the response carries one, PushManager when it differs from the
\* one sent.
PersistSyncMutant(mode, new_token, sync_token) == FALSE
PersistSync(mode, new_token, sync_token) ==
    mode = "polling" \/ new_token # sync_token

CursorKeep == UNCHANGED <<device, auth_token, request_auth_token, mid, last>>

\* The limit=1 call made when the chat has no syncToken returned or raised.
CursorProbeReturn(r) ==
    /\ cu_pc = "call"
    /\ cu_sync = NoToken
    /\ cu_pc' = "done"
    /\ cu_resp' = r
    /\ IF r.raised
       THEN UNCHANGED <<cu_sync, cu_cont, cu_out, storage>>
       ELSE /\ cu_sync' = IF r.sync # NoToken THEN r.sync ELSE cu_sync
            /\ storage' =
                 IF r.sync # NoToken /\ cu_mode = "polling"
                 THEN set_square_sync_token(storage, CursorChat, r.sync)
                 ELSE storage
            /\ cu_cont' = IF cu_mode = "push" THEN NoToken ELSE cu_cont
            /\ cu_out' = cu_out \o ProbeEvents(r)
    /\ CursorKeep
    /\ UNCHANGED <<cu_mode, notCursor>>

\* The fetchSquareChatEvents call with the syncToken returned or raised.
CursorFetchReturn(r) ==
    /\ cu_pc = "call"
    /\ cu_sync # NoToken
    /\ cu_resp' = r
    /\ cu_pc' = IF r.raised THEN "done" ELSE "sync"
    /\ CursorKeep
    /\ UNCHANGED <<cu_mode, cu_sync, cu_cont, cu_out, storage, notCursor>>

\* "Update sync token".
CursorUpdateSync ==
    /\ cu_pc = "sync"
    /\ cu_pc' = "cont"
    /\ IF cu_resp.sync # NoToken
       THEN /\ cu_sync' = cu_resp.sync
            /\ storage' =
                 IF PersistSync(cu_mode, cu_resp.sync, cu_sync)
                 THEN set_square_sync_token(storage, CursorChat, cu_resp.sync)
                 ELSE storage
       ELSE UNCHANGED <<cu_sync, storage>>
    /\ CursorKeep
    /\ UNCHANGED <<cu_mode, cu_cont, cu_resp, cu_out, notCursor>>

\* "Update continuation token".
CursorUpdateCont ==
    /\ cu_pc = "cont"
    /\ cu_pc' = IF EventList(cu_resp) = <<>> THEN "done" ELSE "events"
    /\ cu_cont' = cu_resp.cont
    /\ storage' =
         IF cu_resp.cont # NoToken
         THEN set_square_continuation_token(storage, CursorChat, cu_resp.cont)
         ELSE storage
    /\ CursorKeep
    /\ UNCHANGED <<cu_mode, cu_sync, cu_resp, cu_out, notCursor>>

\* One turn of "for event in events": the event is put in the queue
\* (ChatWorker) or handed to on_event (PushManager).
CursorPutEvent ==
    /\ cu_pc = "events"
    /\ cu_out' = Append(cu_out, EventList(cu_resp)[Len(cu_out) + 1])
    /\ cu_pc' = IF Len(cu_out') = Len(EventList(cu_resp))
                THEN "done" ELSE "events"
    /\ CursorKeep
    /\ UNCHANGED <<cu_mode, cu_sync, cu_cont, cu_resp, storage, notCursor>>

CursorProbe ==
    \E r \in LimitOneResponses(CursorChat) \cup {Raised(FALSE)} :
        CursorProbeReturn(r)

CursorFetch ==
    /\ cu_sync # NoToken
    /\ \E r \in FetchResponses(CursorChat, cu_sync[1]) \cup {Raised(FALSE)} :
         CursorFetchReturn(r)

NextCursor ==
    \/ CursorProbe
    \/ CursorFetch
    \/ CursorUpdateSync
    \/ CursorUpdateCont
    \/ CursorPutEvent

\* A logged-in client about to fetch a chat whose stream holds MaxEvents + 1
\* events: the fetcher has no syncToken or one of an earlier position, and
\* the store holds the same token or, for PushManager, possibly none yet.
InitCursor ==
    /\ device = "DESKTOPWIN"
    /\ auth_token = "t1"
    /\ request_auth_token = "t1"
    /\ mid = "u1"
    /\ last = NoCall
    /\ ConnIdle /\ PushIdle /\ PollIdle
    /\ QrIdle /\ SignIdle /\ DeliverIdle /\ LoopIdle /\ FileIdle
    /\ SessionIdle /\ ClockIdle /\ KeepIdle /\ CodecIdle /\ FrameIdle
    /\ srv = [c \in Chats |-> MaxEvents + 1]
    /\ cu_mode \in {"polling", "push"}
    /\ cu_pc = "call"
    /\ cu_sync \in {NoToken} \cup {Token(p) : p \in 0..MaxEvents}
    /\ cu_cont \in {NoToken} \cup {Token(p) : p \in 0..MaxEvents}
    /\ \E saved \in {cu_sync} \cup (IF cu_mode = "push" THEN {NoToken} ELSE {}) :
         storage = [EmptyStorage EXCEPT !.auth_token = "t1", !.mid = "u1",
                                        !.sync[CursorChat] = saved,
                                        !.cont[CursorChat] = cu_cont]
    /\ cu_resp = NoResp
    /\ cu_out = <<>>

SpecCursor == InitCursor /\ [][NextCursor]_vars

\* C32: once an event of a fetched response is in the queue or was handed to
\* the handler, the store holds the response's syncToken and, when it has
\* one, its continuationToken; the events passed on so far are the first
\* events of the response, in its order.
C32_CursorSavedBeforeEvents ==
    (cu_out # <<>> /\ ~cu_resp.probe)
        => /\ cu_resp.sync # NoToken
                => get_square_sync_token(storage, CursorChat) = cu_resp.sync
           /\ cu_resp.cont # NoToken
                => get_square_continuation_token(storage, CursorChat)
                       = cu_resp.cont
           /\ Len(cu_out) <= Len(EventList(cu_resp))
           /\ \A k \in DOMAIN cu_out : cu_out[k] = EventList(cu_resp)[k]

\* PushManager handed on both events of a response that carried both tokens.
C32_Witness ==
    /\ cu_mode = "push"
    /\ cu_pc = "done"
    /\ cu_resp.sync # NoToken
    /\ cu_resp.cont # NoToken
    /\ Len(cu_out) = 2
    /\ get_square_sync_token(storage, CursorChat) = cu_resp.sync

\* C34: a limit=1 fetch made for want of a syncToken passes on no event of
\* its response and keeps the response's syncToken, in both modes.
C34_ProbeKeepsOnlyToken ==
    (cu_pc = "done" /\ cu_resp.probe)
        => /\ cu_out = <<>>
           /\ cu_resp.sync # NoToken => cu_sync = cu_resp.sync

\* PushManager's limit=1 response held an event and a syncToken.
C34_Witness ==
    /\ cu_mode = "push"
    /\ cu_pc = "done"
    /\ cu_resp.probe
    /\ EventList(cu_resp) # <<>>
    /\ cu_sync = cu_resp.sync
    /\ cu_sync # NoToken
    /\ cu_out = <<>>

\* --------------------------------------------------------------- SpecFraming
\* PushConnection._on_data_received: the bytes of the response stream arrive
\* in chunks and are cut into packets.

\* The frames followed, and the bytes their payloads are made of.
MaxFrameCount == 2
Payloads == {<<>>, <<7>>, <<8>>, <<7, 8>>}

\* struct.pack("!HB", size_h, packet_type)
Header(size_h, packet_type) == <<size_h \div 256, size_h % 256, packet_type>>

\* PushConnection.build_packet
build_packet(packet_type, payload) ==
    Header(Len(payload) % 32768, packet_type) \o payload

\* A frame as the server writes it: as build_packet does, or with the top
\* bit of the size word, a flag, set.
FrameBytes(f) ==
    IF f.flag
    THEN Header(32768 + Len(f.payload), f.kind) \o f.payload
    ELSE build_packet(f.kind, f.payload)

StreamFrames == [flag : BOOLEAN, kind : {PING_PACKET, PUSH_PACKET},
                 payload : Payloads]

RECURSIVE StreamBytes(_)
StreamBytes(fs) ==
    IF fs = <<>> THEN <<>> ELSE FrameBytes(Head(fs)) \o StreamBytes(Tail(fs))

\* size = size_h & 32767
EffectiveSizeMutant(size_h) == size_h
EffectiveSize(size_h) == size_h % 32768

\* The while loop of _on_data_received on the buffer: the packets cut off
\* (appended to packets) and what stays in the buffer.
RECURSIVE on_data_received(_, _)
on_data_received(buffer, packets) ==
    IF Len(buffer) < 3
    THEN [buffer |-> buffer, packets |-> packets]
    ELSE LET size_h == buffer[1] * 256 + buffer[2]
             packet_type == buffer[3]
             size == EffectiveSize(size_h)
         IN  IF Len(buffer) < 3 + size
             THEN [buffer |-> buffer, packets |-> packets]
             ELSE on_data_received(
                      SubSeq(buffer, 4 + size, Len(buffer)),
                      Append(packets,
                             [kind |-> packet_type,
                              payload |-> SubSeq(buffer, 4, 3 + size)]))

\* read_loop hands the next n bytes of the stream to _on_data_received.
DataReceived(n) ==
    /\ n \in 1..Len(fr_stream)
    /\ LET res == on_data_received(fr_buffer \o SubSeq(fr_stream, 1, n), <<>>)
       IN  /\ fr_buffer' = res.buffer
           /\ fr_out' = fr_out \o res.packets
    /\ fr_stream' = SubSeq(fr_stream, n + 1, Len(fr_stream))
    /\ UNCHANGED <<fr_frames, notFrame>>

NextFraming == \E n \in 1..Len(fr_stream) : DataReceived(n)

\* The server has written up to MaxFrameCount complete frames.
InitFraming ==
    /\ LoggedIn /\ ConnIdle /\ ServerIdle /\ PushIdle /\ PollIdle
    /\ QrIdle /\ SignIdle /\ DeliverIdle /\ LoopIdle /\ FileIdle
    /\ SessionIdle /\ ClockIdle /\ KeepIdle /\ CodecIdle /\ CursorIdle
    /\ fr_frames \in UNION { [1..n -> StreamFrames] : n \in 0..MaxFrameCount }
    /\ fr_stream = StreamBytes(fr_frames)
    /\ fr_buffer = <<>>
    /\ fr_out = <<>>

SpecFraming == InitFraming /\ [][NextFraming]_vars

\* The packets of the first n frames: kind and payload.
PacketsOf(n) ==
    [i \in 1..n |-> [kind |-> fr_frames[i].kind,
                     payload |-> fr_frames[i].payload]]

====
